---- MODULE Spec2Model ----
(***************************************************************************)
(* Sigma moving head disk pack controller (sigma_dp.c): dispatcher,        *)
(* interrupt ledger, seek-completion service and unit service of one       *)
(* controller (cidx 0).                                                    *)
(*                                                                         *)
(* Units are indexed as in the source: drives 0..14, the controller        *)
(* pseudo-unit at DP_CONT, the seek unit of drive d at d + DP_SEEK.        *)
(* Drives beyond the enabled ones are configured disabled (UNIT_DIS): no   *)
(* dispatch reaches them (dp_disp line 593), so they are never scheduled   *)
(* and never hold a seek interrupt, and the loops over the drives skip     *)
(* them.                                                                   *)
(*                                                                         *)
(* The event queue is kept as one flag per unit (act: on the queue); the   *)
(* delay a handler asks for is recorded in the sched field of the state    *)
(* the handler returns.  Any scheduled unit may be the next to fire: the   *)
(* time at which the processor issues its next I/O instruction and the     *)
(* timing registers are free, so the order of two pending events is not    *)
(* fixed by the controller.                                                *)
(***************************************************************************)
EXTENDS Integers, Sequences, FiniteSets, TLC

VARIABLES ctx, unit, chan, cfg

vars == <<ctx, unit, chan, cfg>>

(* ---------------- bounds of the model ---------------- *)
NDrives == 2
MaxCyl == 1
MaxSec == 2

(* ---------------- program constants ---------------- *)
DP_NUMCTL == 2
DP_C7240 == 0
DP_C7270 == 1
DP_C7260 == 2
DP_C7265 == 3
DP_C7275 == 4
DP_C3281 == 5
DP_NUMDR_10B == 8
DP_NUMDR_16B == 15
DP_CONT == 15
DP_SEEK == DP_CONT + 1
DP_WDSC == 256

DPS_INIT == 256
DPS_END == 257
DPS_WRITE == 1
DPS_READ == 2
DPS_SEEK == 3
DPS_SEEKI == 131
DPS_SENSE == 4
DPS_CHECK == 5
DPS_RSRV == 7
DPS_WHDR == 9
DPS_RHDR == 10
DPS_CRIOF == 15
DPS_RDEES == 18
DPS_TEST == 19
DPS_RLS == 23
DPS_CRION == 31
DPS_RLSA == 35
DPS_RECAL == 51
DPS_RECALI == 179

DSC_SEEK == 0
DSC_SEEKI == 128
DSC_SEEKW == 1

DPF_WCHK == 1
DPF_DPE == 2
DPF_SNZ == 4
DPF_EOC == 8
DPF_IVA == 16
DPF_PGE == 32
DPF_WPE == 64
DPF_AIM == 128
DPF_V_DIFF == 16
DPF_M_DIFF == 65535

DP_7242 == 0
DP_7261 == 1
DP_7271 == 2
DP_3288 == 3
DP_7276 == 4
DP_7266 == 5
DP_3282 == 6
DP_3283 == 7

(* chan_ctl_time is the channel's control-time register (extern). *)
chan_ctl_time == 5
DpTime == 1
DpStime == 20

(* ---------------- bit arithmetic on uint32 ---------------- *)
Pow2(n) == 2 ^ n

(* x & b # 0 for a single-bit mask b *)
TestBit(x, b) == (x \div b) % 2 = 1

(* x | b for a single-bit mask b *)
OrBit(x, b) == IF TestBit(x, b) THEN x ELSE x + b

(* x & ~b for a single-bit mask b *)
AndNotBit(x, b) == IF TestBit(x, b) THEN x - b ELSE x

(* ---------------- configuration ---------------- *)
DP_Q10B(x) == x <= DP_C7270

DP_NUMDR(c) == IF DP_Q10B(c.dp_ctype) THEN DP_NUMDR_10B ELSE DP_NUMDR_16B

(* the drives that can be enabled *)
Drives == 0 .. (NDrives - 1)

(* the entries of the unit array the model keeps *)
UnitIdx == Drives \cup {DP_CONT} \cup {d + DP_SEEK : d \in Drives}

(* dp_unit[un].flags & UNIT_DIS: the first cfg.ndr drives are enabled *)
UnitDis(un) == un \notin 0 .. (cfg.ndr - 1)

(* geometry table *)
(* DP_SZ: the words of a pack of cy cylinders, hd heads and sc sectors *)
DP_SZ(cy, hd, sc) == cy * hd * sc * DP_WDSC

(* the entry of the table for a pack with capacity DPSZ_x *)
DP_ENT(cy, hd, sc, ct, sz, id) ==
  [cy |-> cy, hd |-> hd, sc |-> sc, ctype |-> ct, capac |-> sz, id |-> id]

(* DPSZ_7266 is defined as DP_SZ (7276) *)
dp_tab ==
  [t \in 0 .. 7 |->
     CASE t = DP_7242 -> DP_ENT(203, 20, 6, DP_C7240, DP_SZ(203, 20, 6), 0)
       [] t = DP_7261 -> DP_ENT(203, 20, 11, DP_C7260, DP_SZ(203, 20, 11), 5 * 32)
       [] t = DP_7271 -> DP_ENT(406, 20, 6, DP_C7270, DP_SZ(406, 20, 6), 0)
       [] t = DP_3288 -> DP_ENT(822, 5, 17, DP_C3281, DP_SZ(822, 5, 17), 0)
       [] t = DP_7276 -> DP_ENT(411, 19, 11, DP_C7275, DP_SZ(411, 19, 11), 7 * 32)
       [] t = DP_7266 -> DP_ENT(411, 20, 11, DP_C7265, DP_SZ(411, 19, 11), 6 * 32)
       [] t = DP_3282 -> DP_ENT(815, 19, 11, DP_C3281, DP_SZ(815, 19, 11), 0)
       [] OTHER -> DP_ENT(815, 19, 17, DP_C3281, DP_SZ(815, 19, 17), 0)]

(* the drive type SET <controller type> gives every drive: the first entry *)
(* of dp_tab for the controller type                                        *)
DefaultDtype(ct) == CHOOSE t \in 0 .. 7 :
                       /\ dp_tab[t].ctype = ct
                       /\ \A u \in 0 .. 7 : dp_tab[u].ctype = ct => t <= u

(* ---------------- the state the handlers work on ---------------- *)
(* uen: the units chan_uen was called for, sched: the <<unit, delay>> put  *)
(* on the event queue;                                                     *)
(* out: the words stored into memory through the channel, got: the number  *)
(* of reads of channel data, both by the handler that is running           *)
S == [ctx |-> ctx, unit |-> unit, chan |-> chan, uen |-> {}, sched |-> {},
      out |-> <<>>, got |-> 0]

Commit(s) == /\ ctx' = s.ctx
             /\ unit' = s.unit
             /\ chan' = s.chan

(* ---------------- event scheduler ---------------- *)
sim_is_active(s, u) == s.unit[u].act

sim_cancel(s, u) ==
  [s EXCEPT !.unit[u].act = FALSE, !.sched = {e \in @ : e[1] # u}]

sim_activate_abs(s, u, t) ==
  [s EXCEPT !.unit[u].act = TRUE, !.sched = {e \in @ : e[1] # u} \cup {<<u, t>>}]

sim_activate(s, u, t) == IF sim_is_active(s, u) THEN s ELSE sim_activate_abs(s, u, t)

(* ---------------- channel: interrupts and unusual end ---------------- *)
(* chi: unit of the pending controller interrupt, -1 when none;          *)
(* inp: the device-interrupt-pending line                                 *)
chan_chk_chi(s) == s.chan.chi

chan_set_chi(s, un) == [s EXCEPT !.chan.chi = un, !.chan.inp = TRUE]

chan_clr_chi(s) == [s EXCEPT !.chan.chi = -1, !.chan.inp = FALSE]

chan_set_dvi(s) == [s EXCEPT !.chan.inp = TRUE]

(* unusual end: the operation of the channel stops, so nothing chains;   *)
(* irq: the command asked for an interrupt on unusual end                 *)
chan_uen(s, un, irq) ==
  LET s1 == IF irq THEN chan_set_chi(s, un) ELSE s
  IN  [s1 EXCEPT !.uen = @ \cup {un}, !.chan.cch = FALSE]

chan_reset_dev(s) == chan_clr_chi(s)

(* ---------------- interrupt ledger ---------------- *)
dp_set_ski(s, un) ==
  chan_set_dvi([s EXCEPT !.ctx.dp_ski = OrBit(@, Pow2(un))])

(* dp_clr_ski that never drops the device-interrupt-pending line *)
dp_clr_ski_KeepLine(s, un) ==
  LET s1 == [s EXCEPT !.ctx.dp_ski = AndNotBit(@, Pow2(un))]
  IN  IF s1.ctx.dp_ski # 0 THEN chan_set_dvi(s1) ELSE s1

dp_clr_ski(s, un) ==
  LET s1 == [s EXCEPT !.ctx.dp_ski = AndNotBit(@, Pow2(un))]
  IN  IF s1.ctx.dp_ski # 0 THEN chan_set_dvi(s1)
      ELSE IF chan_chk_chi(s1) < 0 THEN chan_clr_chi(s1)
      ELSE s1

(* lowest drive below DP_NUMDR with its seek interrupt set, -1 if none *)
FirstSki(s) ==
  LET set == {i \in Drives : i < DP_NUMDR(s.ctx) /\ TestBit(s.ctx.dp_ski, Pow2(i))}
  IN  IF set = {} THEN -1 ELSE CHOOSE i \in set : \A j \in set : i <= j

(* dp_clr_int that serves the seek interrupts before the controller interrupt *)
dp_clr_int_SkiFirst(s) ==
  IF FirstSki(s) >= 0
    THEN <<dp_clr_ski(s, FirstSki(s)), FirstSki(s)>>
    ELSE IF chan_chk_chi(s) >= 0
           THEN <<chan_clr_chi(s), chan_chk_chi(s)>>
           ELSE <<s, 0>>

(* returns <<state, iu>> *)
dp_clr_int(s) ==
  IF chan_chk_chi(s) >= 0
    THEN LET iu == chan_chk_chi(s)
             s1 == chan_clr_chi(s)
         IN  <<IF s1.ctx.dp_ski # 0 THEN chan_set_dvi(s1) ELSE s1, iu>>
    ELSE IF FirstSki(s) >= 0
           THEN <<dp_clr_ski(s, FirstSki(s)), FirstSki(s)>>
           ELSE <<s, 0>>

(* ---------------- status routines ---------------- *)
(* oob: what sim_is_active reads at dp_unit[un + DP_SEEK] when that is     *)
(* past the unit array (un = DP_CONT)                                       *)
SeekActive(s, un, oob) ==
  IF un + DP_SEEK \in UnitIdx THEN sim_is_active(s, un + DP_SEEK) ELSE oob

(* dp_tio_status that does not look at the seek unit *)
dp_tio_status_NoSeek(s, un, oob) ==
  {"AUTO"}
    \cup (IF \E i \in Drives : i < DP_NUMDR(s.ctx) /\ sim_is_active(s, i)
            THEN {"CBUSY", "CC2"} ELSE {})
    \cup (IF sim_is_active(s, un) THEN {"DBUSY", "CC2"} ELSE {})

dp_tio_status(s, un, oob) ==
  {"AUTO"}
    \cup (IF \E i \in Drives : i < DP_NUMDR(s.ctx) /\ sim_is_active(s, i)
            THEN {"CBUSY", "CC2"} ELSE {})
    \cup (IF sim_is_active(s, un) \/ SeekActive(s, un, oob)
            THEN {"DBUSY", "CC2"} ELSE {})

on_cyl(s, un, oob) ==
  \/ ~SeekActive(s, un, oob)
  \/ (IF un + DP_SEEK \in UnitIdx THEN s.unit[un + DP_SEEK].UCMD = DSC_SEEKW ELSE oob)

(* dp_tdv_status that leaves DPF_IVA out of the 10-byte answer *)
dp_tdv_status_NoIva(s, un, oob) ==
  IF DP_Q10B(s.ctx.dp_ctype)
    THEN (IF TestBit(s.ctx.dp_flags, DPF_PGE) THEN 32 ELSE 0)
         + (IF on_cyl(s, un, oob) THEN 4 ELSE 0)
    ELSE (IF TestBit(s.ctx.dp_flags, DPF_PGE) THEN 32 ELSE 0)
         + (IF TestBit(s.ctx.dp_flags, DPF_WPE) THEN 8 ELSE 0)

dp_tdv_status(s, un, oob) ==
  IF DP_Q10B(s.ctx.dp_ctype)
    THEN (IF TestBit(s.ctx.dp_flags, DPF_IVA) \/ TestBit(s.ctx.dp_flags, DPF_PGE)
            THEN 32 ELSE 0)
         + (IF on_cyl(s, un, oob) THEN 4 ELSE 0)
    ELSE (IF TestBit(s.ctx.dp_flags, DPF_PGE) THEN 32 ELSE 0)
         + (IF TestBit(s.ctx.dp_flags, DPF_WPE) THEN 8 ELSE 0)

dp_aio_status(s, un, oob) ==
  (IF DP_Q10B(s.ctx.dp_ctype) /\ on_cyl(s, un, oob) THEN 4 ELSE 0)
  + (IF chan_chk_chi(s) < 0 THEN 8 ELSE 0)

(* ---------------- dispatcher ---------------- *)
(* un exists: lines 592-594 *)
(* the validity test with unit 0xF accepted on every 16-byte controller *)
UnitExists_Any16B(s, un) ==
  \/ (un < DP_NUMDR(s.ctx) /\ ~UnitDis(un))
  \/ (un = DP_CONT /\ ~DP_Q10B(s.ctx.dp_ctype))

UnitExists(s, un) ==
  \/ (un < DP_NUMDR(s.ctx) /\ ~UnitDis(un))
  \/ (un = DP_CONT /\ s.ctx.dp_ctype = DP_C3281)

(* a knock down that reschedules the seek units and leaves the seek       *)
(* interrupts set                                                          *)
RECURSIVE KnockDown_KeepBit(_, _)
KnockDown_KeepBit(s, i) ==
  IF i >= DP_NUMDR(s.ctx) \/ i \notin Drives THEN s
  ELSE IF TestBit(s.ctx.dp_ski, Pow2(i))
    THEN LET s2 == sim_activate(s, i + DP_SEEK, chan_ctl_time * 10)
             s3 == [s2 EXCEPT !.unit[i + DP_SEEK].UCMD = DSC_SEEKW]
         IN  KnockDown_KeepBit(s3, i + 1)
    ELSE KnockDown_KeepBit(s, i + 1)

(* knock down the seek interrupts of drives i..DP_NUMDR-1: lines 607-613 *)
RECURSIVE KnockDown(_, _)
KnockDown(s, i) ==
  IF i >= DP_NUMDR(s.ctx) \/ i \notin Drives THEN s
  ELSE IF TestBit(s.ctx.dp_ski, Pow2(i))
    THEN LET s1 == dp_clr_ski(s, i)
             s2 == sim_activate(s1, i + DP_SEEK, chan_ctl_time * 10)
             s3 == [s2 EXCEPT !.unit[i + DP_SEEK].UCMD = DSC_SEEKW]
         IN  KnockDown(s3, i + 1)
    ELSE KnockDown(s, i + 1)

Status(f) == [flags |-> f, st |-> 0, un |-> 0]

(* dp_sio without the test of the controller interrupt *)
dp_sio_NoChiTest(s, un, oob) ==
  LET dv == dp_tio_status(s, un, oob)
  IN  IF TestBit(s.ctx.dp_ski, Pow2(un))
        THEN [s |-> s, dvst |-> Status(dv \cup {"CC2"})]
        ELSE LET s1 == KnockDown(s, 0)
                 s2 == IF dv \cap {"CBUSY", "DBUSY"} = {}
                         THEN sim_activate([s1 EXCEPT !.unit[un].UCMD = DPS_INIT],
                                           un, chan_ctl_time)
                         ELSE s1
             IN  [s |-> s2, dvst |-> Status(dv)]

(* dp_sio without the test of the addressed drive's seek interrupt *)
dp_sio_NoSkiTest(s, un, oob) ==
  LET dv == dp_tio_status(s, un, oob)
  IN  IF chan_chk_chi(s) >= 0
        THEN [s |-> s, dvst |-> Status(dv \cup {"CC2"})]
        ELSE LET s1 == KnockDown(s, 0)
                 s2 == IF dv \cap {"CBUSY", "DBUSY"} = {}
                         THEN sim_activate([s1 EXCEPT !.unit[un].UCMD = DPS_INIT],
                                           un, chan_ctl_time)
                         ELSE s1
             IN  [s |-> s2, dvst |-> Status(dv)]

(* dp_sio that starts the drive whenever the drive itself is not busy *)
dp_sio_IgnoreCBusy(s, un, oob) ==
  LET dv == dp_tio_status(s, un, oob)
  IN  IF chan_chk_chi(s) >= 0 \/ TestBit(s.ctx.dp_ski, Pow2(un))
        THEN [s |-> s, dvst |-> Status(dv \cup {"CC2"})]
        ELSE LET s1 == KnockDown(s, 0)
                 s2 == IF "DBUSY" \notin dv
                         THEN sim_activate([s1 EXCEPT !.unit[un].UCMD = DPS_INIT],
                                           un, chan_ctl_time)
                         ELSE s1
             IN  [s |-> s2, dvst |-> Status(dv)]

(* OP_SIO: returns [s, dvst] *)
dp_sio(s, un, oob) ==
  LET dv == dp_tio_status(s, un, oob)
  IN  IF chan_chk_chi(s) >= 0 \/ TestBit(s.ctx.dp_ski, Pow2(un))
        THEN [s |-> s, dvst |-> Status(dv \cup {"CC2"})]
        ELSE LET s1 == KnockDown(s, 0)
                 s2 == IF dv \cap {"CBUSY", "DBUSY"} = {}
                         THEN sim_activate([s1 EXCEPT !.unit[un].UCMD = DPS_INIT],
                                           un, chan_ctl_time)
                         ELSE s1
             IN  [s |-> s2, dvst |-> Status(dv)]

(* HIO of every drive i..DP_NUMDR-1: lines 641-648 *)
RECURSIVE HaltAll(_, _, _)
HaltAll(s, i, irq) ==
  IF i >= DP_NUMDR(s.ctx) \/ i \notin Drives THEN s
  ELSE LET s1 == IF sim_is_active(s, i)
                   THEN chan_uen(sim_cancel(s, i), i, irq)
                   ELSE s
           s2 == dp_clr_ski(s1, i)
           s3 == sim_cancel(s2, i + DP_SEEK)
       IN  HaltAll(s3, i + 1, irq)

(* dp_hio that leaves the seek unit of the drive on the event queue *)
dp_hio_KeepSeek(s, un, oob, irq) ==
  LET dv == dp_tio_status(s, un, oob)
  IN  IF un # DP_CONT
        THEN LET s1 == IF un = chan_chk_chi(s) THEN chan_clr_chi(s) ELSE s
                 s2 == IF sim_is_active(s1, un)
                         THEN chan_uen(sim_cancel(s1, un), un, irq)
                         ELSE s1
             IN  [s |-> dp_clr_ski(s2, un), dvst |-> Status(dv)]
        ELSE [s |-> chan_clr_chi(HaltAll(s, 0, irq)), dvst |-> Status(dv)]

(* OP_HIO: returns [s, dvst] *)
dp_hio(s, un, oob, irq) ==
  LET dv == dp_tio_status(s, un, oob)
  IN  IF un # DP_CONT
        THEN LET s1 == IF un = chan_chk_chi(s) THEN chan_clr_chi(s) ELSE s
                 s2 == IF sim_is_active(s1, un)
                         THEN chan_uen(sim_cancel(s1, un), un, irq)
                         ELSE s1
                 s3 == dp_clr_ski(s2, un)
                 s4 == sim_cancel(s3, un + DP_SEEK)
             IN  [s |-> s4, dvst |-> Status(dv)]
        ELSE [s |-> chan_clr_chi(HaltAll(s, 0, irq)), dvst |-> Status(dv)]

(* OP_AIO: returns [s, dvst] *)
dp_aio(s, oob) ==
  LET r == dp_clr_int(s)
      iu == r[2]
  IN  [s |-> r[1],
       dvst |-> [flags |-> {}, st |-> dp_aio_status(r[1], iu, oob), un |-> iu]]

Ops == {"SIO", "TIO", "TDV", "HIO", "AIO", "BAD"}

NoStatus == [flags |-> {}, st |-> 0, un |-> 0]

(* dp_disp: returns [s, rc, dvst]; dvst is NoStatus when it is not written *)
dp_disp(s, cidx, op, un, oob, irq) ==
  IF cidx >= DP_NUMCTL THEN [s |-> s, rc |-> "NODEV", dvst |-> NoStatus]
  ELSE IF ~UnitExists(s, un) THEN [s |-> s, rc |-> "NODEV", dvst |-> NoStatus]
  ELSE CASE op = "SIO" -> [rc |-> "OK"] @@ dp_sio(s, un, oob)
         [] op = "TIO" -> [s |-> s, rc |-> "OK",
                           dvst |-> Status(dp_tio_status(s, un, oob))]
         [] op = "TDV" -> [s |-> s, rc |-> "OK",
                           dvst |-> [flags |-> {}, st |-> dp_tdv_status(s, un, oob),
                                     un |-> 0]]
         [] op = "HIO" -> [rc |-> "OK"] @@ dp_hio(s, un, oob, irq)
         [] op = "AIO" -> [rc |-> "OK"] @@ dp_aio(s, oob)
         [] OTHER -> [s |-> s, rc |-> "IERR", dvst |-> Status({})]

(* ---------------- seek completion service ---------------- *)
Dtype(un) == cfg.dtype

(* the seek completion that waits a multiple of the inter-track time *)
dps_svc_TrackTime(s, un) ==
  LET u == un + DP_SEEK
  IN  IF s.unit[u].UCMD # DSC_SEEK
        THEN IF chan_chk_chi(s) >= 0
               THEN [sim_activate(s, u, DpStime * dp_tab[Dtype(un)].sc)
                       EXCEPT !.unit[u].UCMD = DSC_SEEKW]
               ELSE dp_set_ski(s, un)
        ELSE s

(* the seek completion that does not look at the controller interrupt *)
dps_svc_NoDefer(s, un) ==
  IF s.unit[un + DP_SEEK].UCMD # DSC_SEEK THEN dp_set_ski(s, un) ELSE s

dps_svc(s, un) ==
  LET u == un + DP_SEEK
  IN  IF s.unit[u].UCMD # DSC_SEEK
        THEN IF chan_chk_chi(s) >= 0
               THEN [sim_activate(s, u, DpTime * dp_tab[Dtype(un)].sc)
                       EXCEPT !.unit[u].UCMD = DSC_SEEKW]
               ELSE dp_set_ski(s, un)
        ELSE s

(* ---------------- reset ---------------- *)
(* a unit reset that leaves the disk address *)
dp_reset_unit_KeepAddr(s, u) == [sim_cancel(s, u) EXCEPT !.unit[u].UCMD = 0]

dp_reset_unit(s, u) == [sim_cancel(s, u) EXCEPT !.unit[u].UDA = 0, !.unit[u].UCMD = 0]

dp_reset(s) ==
  LET s1 == [s EXCEPT !.unit = [u \in UnitIdx |-> dp_reset_unit(s, u).unit[u]],
                       !.sched = {}]
      s2 == [s1 EXCEPT !.ctx.dp_flags = 0, !.ctx.dp_ski = 0, !.ctx.dp_test = 0]
  IN  chan_reset_dev(s2)

(* ---------------- sector data ---------------- *)
(* a sector: dp_buf[0 .. DP_WDSC-1] *)
WordIdx == 0 .. (DP_WDSC - 1)

ZeroSec == [i \in WordIdx |-> 0]

NoData == [a \in {} |-> ZeroSec]

(* the sectors the channel programs write and compare, by name: zeros, a   *)
(* ramp, and the ramp with another last word                                *)
SecA == [i \in WordIdx |-> i + 1]
SecC == [i \in WordIdx |-> IF i = DP_WDSC - 1 THEN 255 ELSE i + 1]
Sectors == [zero |-> ZeroSec, a |-> SecA, c |-> SecC]

(* the sectors of the channel programs of the run: cfg.data holds their names *)
DataIn == {Sectors[d] : d \in cfg.data}

(* byte i of a sector, the high byte of a word first *)
SecByte(sec, i) == (sec[i \div 4] \div Pow2(24 - ((i % 4) * 8))) % 256

(* ---------------- disk address ---------------- *)
DPA_GETCY(x) == (x \div 65536) % 1024

DPA_GETHD(x) == (x \div 256) % 32

DPA_GETSC(x) == x % 32

(* returns TRUE when the address of the unit is outside its geometry *)
dp_inv_ad(s, un) ==
  LET g == dp_tab[Dtype(un)]
      a == s.unit[un].UDA
  IN  \/ DPA_GETCY(a) >= g.cy
      \/ DPA_GETHD(a) >= g.hd
      \/ DPA_GETSC(a) >= g.sc

(* *da of dp_inv_ad: the word address of the sector in the file *)
WordAddr(s, un) ==
  LET g == dp_tab[Dtype(un)]
      a == s.unit[un].UDA
  IN  ((((DPA_GETCY(a) * g.hd) + DPA_GETHD(a)) * g.sc) + DPA_GETSC(a)) * DP_WDSC

(* dp_read without error: dp_buf, filled with zeros where the file ends *)
dp_read(s, un, da) ==
  IF da \in DOMAIN s.unit[un].file THEN s.unit[un].file[da] ELSE ZeroSec

(* a write that loses the last word of the buffer *)
dp_write_Short(s, un, da, buf) ==
  [s EXCEPT !.unit[un].file =
     [a \in (DOMAIN @) \cup {da} |->
        IF a = da THEN [buf EXCEPT ![DP_WDSC - 1] = 0] ELSE @[a]]]

(* dp_write without error: dp_buf goes to the file at word address da *)
dp_write(s, un, da, buf) ==
  [s EXCEPT !.unit[un].file =
     [a \in (DOMAIN @) \cup {da} |-> IF a = da THEN buf ELSE @[a]]]

(* the increment without the wrap of the head number *)
IncAddr_NoHeadWrap(a, g) ==
  LET sc1 == DPA_GETSC(a) + 1
      sc2 == IF sc1 >= g.sc THEN 0 ELSE sc1
      hd1 == IF sc1 >= g.sc THEN DPA_GETHD(a) + 1 ELSE DPA_GETHD(a)
  IN  DPA_GETCY(a) * 65536 + hd1 * 256 + sc2

(* the address after one increment *)
IncAddr(a, g) ==
  LET sc1 == DPA_GETSC(a) + 1
      sc2 == IF sc1 >= g.sc THEN 0 ELSE sc1
      hd1 == IF sc1 >= g.sc THEN DPA_GETHD(a) + 1 ELSE DPA_GETHD(a)
      hd2 == IF sc1 >= g.sc /\ hd1 >= g.hd THEN 0 ELSE hd1
  IN  DPA_GETCY(a) * 65536 + hd2 * 256 + sc2

(* the variant that never reports the end of the cylinder *)
dp_inc_ad_NoWrap(s, un) ==
  [s |-> [s EXCEPT !.unit[un].UDA = IncAddr(@, dp_tab[Dtype(un)])],
   wrap |-> FALSE]

(* returns [s, wrap] *)
dp_inc_ad(s, un) ==
  LET n == IncAddr(s.unit[un].UDA, dp_tab[Dtype(un)])
  IN  [s |-> [s EXCEPT !.unit[un].UDA = n],
       wrap |-> DPA_GETHD(n) = 0 /\ DPA_GETSC(n) = 0]

(* ---------------- command table ---------------- *)
C_10B == {DP_C7240, DP_C7270}

C_16B == {DP_C7260, DP_C7275, DP_C7265, DP_C3281}

C_A == C_10B \cup C_16B

(* dp_cmd[cmd]: the controller types, the fast tag, the controller tag *)
dp_cmd(cmd) ==
  CASE cmd \in {1, 2, 5, 9, 10, 18} -> [ct |-> C_A, F |-> FALSE, C |-> FALSE]
    [] cmd \in {3, 4, 19, 51, 131} -> [ct |-> C_A, F |-> TRUE, C |-> FALSE]
    [] cmd \in {7, 23, 179} -> [ct |-> C_16B, F |-> TRUE, C |-> FALSE]
    [] cmd \in {DPS_CRIOF, DPS_CRION} -> [ct |-> C_16B, F |-> TRUE, C |-> TRUE]
    [] cmd = 35 -> [ct |-> C_10B, F |-> TRUE, C |-> FALSE]
    [] OTHER -> [ct |-> {}, F |-> FALSE, C |-> FALSE]

(* ---------------- channel: command and data ---------------- *)
(* dp_chan_err: unusual end *)
dp_chan_err(s, un, irq) == chan_uen(s, un, irq)

(* chan_set_chf (CHF_LNTE): the channel ends the operation when it cares *)
chan_set_chf(s, un, care, irq) == IF care THEN chan_uen(s, un, irq) ELSE s

(* the channel raised its interrupt during a transfer or at channel end *)
ChanIrq(s, un, irq) == IF irq THEN chan_set_chi(s, un) ELSE s

(* ---------------- rotational position ---------------- *)
(* the sector count that forgets the words of a sector *)
GET_PSC_Words(now, x, s) == (now \div x) % s

(* GET_PSC: fmod (sim_gtime () / (x * DP_WDSC), s) cut to an integer, for  *)
(* the simulated time now, a whole number of time units                    *)
GET_PSC(now, x, s) == (now \div (x * DP_WDSC)) % s

(* ---------------- unit service: INIT and END ---------------- *)
(* the INIT state that lets the flags of the last command stand *)
dp_svc_init_KeepFlags(s, un, gst, cmd, cch, now, irq) ==
  IF gst = "err" THEN dp_chan_err(s, un, irq)
  ELSE LET s1 == [s EXCEPT !.chan.cch = cch]
           bad == [s1 EXCEPT !.ctx.dp_flags = OrBit(@, DPF_PGE)]
       IN  IF s1.ctx.dp_ctype \notin dp_cmd(cmd).ct \/ (un = DP_CONT /\ ~dp_cmd(cmd).C)
             THEN chan_uen(bad, un, irq)
             ELSE sim_cancel(sim_activate_abs([s1 EXCEPT !.unit[un].UCMD = cmd], un,
                                              chan_ctl_time), un + DP_SEEK)

(* the INIT state that leaves the seek unit on the event queue *)
dp_svc_init_KeepSeek(s, un, gst, cmd, cch, now, irq) ==
  IF gst = "err" THEN dp_chan_err(s, un, irq)
  ELSE LET s1 == [s EXCEPT !.ctx.dp_flags = 0, !.chan.cch = cch]
           bad == [s1 EXCEPT !.ctx.dp_flags = OrBit(@, DPF_PGE)]
       IN  IF s1.ctx.dp_ctype \notin dp_cmd(cmd).ct \/ (un = DP_CONT /\ ~dp_cmd(cmd).C)
             THEN chan_uen(bad, un, irq)
             ELSE sim_activate_abs([s1 EXCEPT !.unit[un].UCMD = cmd], un, chan_ctl_time)

(* the INIT state without the test of the controller-command tag *)
dp_svc_init_NoCtlTest(s, un, gst, cmd, cch, now, irq) ==
  IF gst = "err" THEN dp_chan_err(s, un, irq)
  ELSE LET s1 == [s EXCEPT !.ctx.dp_flags = 0, !.chan.cch = cch]
           bad == [s1 EXCEPT !.ctx.dp_flags = OrBit(@, DPF_PGE)]
       IN  IF s1.ctx.dp_ctype \notin dp_cmd(cmd).ct THEN chan_uen(bad, un, irq)
           ELSE LET s2 == [s1 EXCEPT !.unit[un].UCMD = cmd]
                    s3 == sim_activate_abs(s2, un, chan_ctl_time)
                IN  IF un + DP_SEEK \in UnitIdx
                      THEN sim_cancel(s3, un + DP_SEEK)
                      ELSE s3

(* gst: status of chan_get_cmd; cch: the command's chain flag; now: the    *)
(* simulated time (sim_gtime) of the call                                  *)
dp_svc_init(s, un, gst, cmd, cch, now, irq) ==
  IF gst = "err" THEN dp_chan_err(s, un, irq)
  ELSE LET s1 == [s EXCEPT !.ctx.dp_flags = 0, !.chan.cch = cch]
           bad == [s1 EXCEPT !.ctx.dp_flags = OrBit(@, DPF_PGE)]
       IN  IF s1.ctx.dp_ctype \notin dp_cmd(cmd).ct THEN chan_uen(bad, un, irq)
           ELSE IF un = DP_CONT /\ ~dp_cmd(cmd).C THEN chan_uen(bad, un, irq)
           ELSE LET s2 == [s1 EXCEPT !.unit[un].UCMD = cmd]
                    sct == dp_tab[Dtype(un)].sc
                    t0 == DPA_GETSC(s2.unit[un].UDA) - GET_PSC(now, DpTime, sct)
                    t == IF t0 < 0 THEN t0 + sct ELSE t0
                    s3 == IF dp_cmd(cmd).F
                            THEN sim_activate_abs(s2, un, chan_ctl_time)
                            ELSE sim_activate_abs(s2, un, t * DpTime * DP_WDSC)
                IN  IF un + DP_SEEK \in UnitIdx
                      THEN sim_cancel(s3, un + DP_SEEK)
                      ELSE s3

(* the END state that restarts the unit whether or not the command chains *)
dp_svc_end_AlwaysChain(s, un, est, irq) ==
  IF est = "err" THEN dp_chan_err(s, un, irq)
  ELSE sim_activate([ChanIrq(s, un, irq) EXCEPT !.unit[un].UCMD = DPS_INIT], un,
                    chan_ctl_time)

(* est: status of chan_end, "err", or "end": then CHS_CCH when the command chains *)
dp_svc_end(s, un, est, irq) ==
  IF est = "err" THEN dp_chan_err(s, un, irq)
  ELSE LET s1 == ChanIrq(s, un, irq)
       IN  IF s1.chan.cch
             THEN sim_activate([s1 EXCEPT !.unit[un].UCMD = DPS_INIT], un, chan_ctl_time)
             ELSE s1

(* op done, next state: lines 933-934 *)
SchedEnd(s, un) ==
  sim_activate([s EXCEPT !.unit[un].UCMD = DPS_END], un, chan_ctl_time)

(* ---------------- unit service: command bodies ---------------- *)
SetFlag(s, f) == [s EXCEPT !.ctx.dp_flags = OrBit(@, f)]

(* the seek tail that takes the sub-state from the command alone *)
SeekTail_NoChainTest(s, un, da, dc) ==
  LET d == DPA_GETCY(s.unit[un].UDA) - dc
      t == IF d < 0 THEN -d ELSE d
      s1 == [s EXCEPT !.ctx.dp_flags =
                        (@ % 65536) + (t % (DPF_M_DIFF + 1)) * Pow2(DPF_V_DIFF)]
      t1 == IF t = 0 THEN 1 ELSE t
      s2 == [s1 EXCEPT !.unit[un].UDA = da]
      s3 == sim_activate(s2, un + DP_SEEK, t1 * DpStime)
  IN  [s3 EXCEPT !.unit[un + DP_SEEK].UCMD = ((s3.unit[un].UCMD \div 128) % 2) * 128]

(* seek tail shared with recalibrate: lines 750-759 *)
SeekTail(s, un, da, dc) ==
  LET d == DPA_GETCY(s.unit[un].UDA) - dc
      t == IF d < 0 THEN -d ELSE d
      s1 == [s EXCEPT !.ctx.dp_flags =
                        (@ % 65536) + (t % (DPF_M_DIFF + 1)) * Pow2(DPF_V_DIFF)]
      t1 == IF t = 0 THEN 1 ELSE t
      s2 == [s1 EXCEPT !.unit[un].UDA = da]
      s3 == sim_activate(s2, un + DP_SEEK, t1 * DpStime)
  IN  [s3 EXCEPT !.unit[un + DP_SEEK].UCMD =
                   IF s3.chan.cch THEN DSC_SEEK
                   ELSE ((s3.unit[un].UCMD \div 128) % 2) * 128]

(* DPS_SEEK, DPS_SEEKI: n bytes were read when the loop ended with status xst *)
dp_svc_seek(s, un, n, xst, c, care, irq) ==
  IF xst = "err" THEN dp_chan_err(s, un, irq)
  ELSE LET b == [i \in 1 .. 4 |-> IF i <= n THEN c[i] ELSE 0]
           da == b[1] * 16777216 + b[2] * 65536 + b[3] * 256 + b[4]
           s1 == IF b[1] \div 4 # 0 THEN SetFlag(s, DPF_PGE) ELSE s
       IN  IF (n # 4 \/ xst # "zbc") /\ care
             THEN SetFlag(chan_set_chf(s1, un, care, irq), DPF_PGE)
           ELSE IF n < 4 THEN chan_uen(s1, un, irq)
           ELSE SchedEnd(SeekTail(s1, un, da, DPA_GETCY(da)), un)

(* DPS_RECAL, DPS_RECALI *)
dp_svc_recal(s, un) == SchedEnd(SeekTail(s, un, 0, 0), un)

(* a sector end that goes on to the next sector across the end of the     *)
(* cylinder                                                                *)
dp_end_sec_NoEoc(s, un, lnt, exp, xst, care, irq) ==
  LET r == dp_inc_ad(s, un)
  IN  IF xst # "zbc"
        THEN [s |-> sim_activate(r.s, un, DpTime * 16), done |-> TRUE]
        ELSE IF lnt # exp
               THEN LET s1 == IF exp = 8 THEN SetFlag(r.s, DPF_PGE) ELSE r.s
                    IN  [s |-> chan_set_chf(s1, un, care, irq), done |-> care]
               ELSE [s |-> r.s, done |-> FALSE]

(* returns [s, done]: done when the caller returns at once *)
dp_end_sec(s, un, lnt, exp, xst, care, irq) ==
  LET r == dp_inc_ad(s, un)
  IN  IF xst # "zbc"
        THEN IF r.wrap
               THEN [s |-> chan_uen(SetFlag(SetFlag(r.s, DPF_IVA), DPF_EOC), un, irq),
                     done |-> TRUE]
               ELSE [s |-> sim_activate(r.s, un, DpTime * 16), done |-> TRUE]
        ELSE IF lnt # exp
               THEN LET s1 == IF exp = 8 THEN SetFlag(r.s, DPF_PGE) ELSE r.s
                    IN  [s |-> chan_set_chf(s1, un, care, irq), done |-> care]
               ELSE [s |-> r.s, done |-> FALSE]

(* an error routine that tries the sector again *)
dp_ioerr_Retry(s, un, irq) == sim_activate(SetFlag(s, DPF_DPE), un, DpTime * 16)

(* dp_ioerr: the data error flag and unusual end *)
dp_ioerr(s, un, irq) == chan_uen(SetFlag(s, DPF_DPE), un, irq)

(* either the caller returned, or the op is done and END is scheduled *)
EndOrReturn(r, un) == IF r.done THEN r.s ELSE SchedEnd(r.s, un)

(* a Write that looks at the address before the write lock *)
dp_svc_write_AddrFirst(s, un, lnt, xst, ioerr, care, irq, wds, part) ==
  IF dp_inv_ad(s, un) THEN chan_uen(SetFlag(s, DPF_PGE), un, irq)
  ELSE IF cfg.ro[un] THEN chan_uen(SetFlag(s, DPF_WPE), un, irq)
  ELSE LET da == WordAddr(s, un)
           s0 == [s EXCEPT !.got = lnt]
           buf == [i \in WordIdx |-> IF i < lnt THEN wds[i] ELSE 0]
       IN  IF xst = "err" THEN dp_chan_err(dp_inc_ad(s0, un).s, un, irq)
           ELSE IF ioerr
             THEN dp_ioerr(IF part THEN dp_write(s0, un, da, buf) ELSE s0, un, irq)
           ELSE EndOrReturn(dp_end_sec(dp_write(s0, un, da, buf), un,
                                       DP_WDSC, DP_WDSC, xst, care, irq), un)

(* DPS_WRITE *)
(* the channel supplies the words wds[0 .. lnt-1], the last one with status *)
(* xst; part: a failed write had already put the buffer into the file        *)
dp_svc_write(s, un, lnt, xst, ioerr, care, irq, wds, part) ==
  IF cfg.ro[un] THEN chan_uen(SetFlag(s, DPF_WPE), un, irq)
  ELSE IF dp_inv_ad(s, un) THEN chan_uen(SetFlag(s, DPF_PGE), un, irq)
  ELSE LET da == WordAddr(s, un)
           s0 == [s EXCEPT !.got = lnt]
           buf == [i \in WordIdx |-> IF i < lnt THEN wds[i] ELSE 0]
       IN  IF xst = "err" THEN dp_chan_err(dp_inc_ad(s0, un).s, un, irq)
           ELSE IF ioerr
             THEN dp_ioerr(IF part THEN dp_write(s0, un, da, buf) ELSE s0, un, irq)
           ELSE EndOrReturn(dp_end_sec(dp_write(s0, un, da, buf), un,
                                       DP_WDSC, DP_WDSC, xst, care, irq), un)

(* the bytes of wds[] that differ from the sector buf, among the bytes the *)
(* channel supplies: lnt reads, the last one failing when xst is "err"     *)
Miscompares(buf, wds, lnt, xst) ==
  {i \in 0 .. ((IF xst = "err" THEN lnt - 1 ELSE lnt) - 1) :
     SecByte(wds, i) # SecByte(buf, i)}

(* the last of the bytes that differ *)
FirstOf_Last(m) == CHOOSE i \in m : \A j \in m : j <= i

FirstOf(m) == CHOOSE i \in m : \A j \in m : i <= j

(* DPS_CHECK: the channel supplies the bytes of wds[], lnt reads are made   *)
(* when no byte differs, the last one with status xst                      *)
dp_svc_check(s, un, lnt, xst, ioerr, care, irq, wds) ==
  IF dp_inv_ad(s, un) THEN chan_uen(SetFlag(s, DPF_PGE), un, irq)
  ELSE IF ioerr THEN dp_ioerr(s, un, irq)
  ELSE LET buf == dp_read(s, un, WordAddr(s, un))
           m == Miscompares(buf, wds, lnt, xst)
       IN  IF m # {}
             THEN chan_uen(SetFlag(dp_inc_ad([s EXCEPT !.got = @ + FirstOf(m) + 1], un).s,
                                   DPF_WCHK), un, irq)
           ELSE LET s0 == [s EXCEPT !.got = @ + lnt]
                IN  IF xst = "err" THEN dp_chan_err(dp_inc_ad(s0, un).s, un, irq)
                    ELSE EndOrReturn(dp_end_sec(s0, un, lnt, DP_WDSC * 4, xst, care, irq),
                                     un)

(* a Write Header that leaves the switch when its sector is done *)
dp_svc_whdr_Break(s, un, lnt, xst, care, irq, in2) ==
  IF cfg.ro[un] THEN chan_uen(SetFlag(s, DPF_WPE), un, irq)
  ELSE IF dp_inv_ad(s, un) THEN chan_uen(SetFlag(s, DPF_PGE), un, irq)
  ELSE IF DPA_GETSC(s.unit[un].UDA) # 0 THEN chan_uen(SetFlag(s, DPF_SNZ), un, irq)
  ELSE LET s0 == [s EXCEPT !.got = lnt]
       IN  IF xst = "err" THEN dp_chan_err(dp_inc_ad(s0, un).s, un, irq)
           ELSE EndOrReturn(dp_end_sec(s0, un, lnt, 8, xst, care, irq), un)

(* DPS_WHDR: lnt header bytes are read, the last one with status xst; the *)
(* case has no break and falls into DPS_CHECK when dp_end_sec returns     *)
(* FALSE; in2 are the inputs of that write check, whose bytes add to got  *)
dp_svc_whdr(s, un, lnt, xst, care, irq, in2) ==
  IF cfg.ro[un] THEN chan_uen(SetFlag(s, DPF_WPE), un, irq)
  ELSE IF dp_inv_ad(s, un) THEN chan_uen(SetFlag(s, DPF_PGE), un, irq)
  ELSE IF DPA_GETSC(s.unit[un].UDA) # 0 THEN chan_uen(SetFlag(s, DPF_SNZ), un, irq)
  ELSE LET s0 == [s EXCEPT !.got = lnt]
       IN  IF xst = "err" THEN dp_chan_err(dp_inc_ad(s0, un).s, un, irq)
           ELSE LET r == dp_end_sec(s0, un, lnt, 8, xst, care, irq)
                IN  IF r.done THEN r.s
                    ELSE dp_svc_check(r.s, un, in2.lnt, in2.xst, in2.ioerr, in2.care,
                                      irq, in2.wds)

(* DPS_READ *)
(* lnt stores into memory are made, the last one with status xst *)
dp_svc_read(s, un, lnt, xst, ioerr, care, irq) ==
  IF dp_inv_ad(s, un) THEN chan_uen(SetFlag(s, DPF_PGE), un, irq)
  ELSE IF ioerr THEN dp_ioerr(s, un, irq)
  ELSE LET buf == dp_read(s, un, WordAddr(s, un))
           n == IF xst = "err" THEN lnt - 1 ELSE lnt
           s0 == [s EXCEPT !.out = [i \in 1 .. n |-> buf[i - 1]]]
       IN  IF xst = "err" THEN dp_chan_err(dp_inc_ad(s0, un).s, un, irq)
           ELSE EndOrReturn(dp_end_sec(s0, un, lnt, DP_WDSC, xst, care, irq), un)

(* DPS_RHDR *)
dp_svc_rhdr(s, un, lnt, xst, care, irq) ==
  IF dp_inv_ad(s, un) THEN chan_uen(SetFlag(s, DPF_PGE), un, irq)
  ELSE IF xst = "err" THEN dp_chan_err(dp_inc_ad(s, un).s, un, irq)
  ELSE EndOrReturn(dp_end_sec(s, un, lnt, 8, xst, care, irq), un)

DPS_NBY(c) == IF DP_Q10B(c.dp_ctype) THEN 10 ELSE 16

DPT_NBY(c) == IF DP_Q10B(c.dp_ctype) THEN 1 ELSE 2

(* the arm-in-motion flag: lines 1058-1061 *)
dp_set_sense(s, un) ==
  IF sim_is_active(s, un + DP_SEEK) /\ s.unit[un + DP_SEEK].UCMD # DSC_SEEKW
    THEN SetFlag(s, DPF_AIM)
    ELSE [s EXCEPT !.ctx.dp_flags = AndNotBit(@, DPF_AIM)]

(* the address bytes with the cylinder bits above bit 7 left out *)
SenseAddr_NoHigh(s, un) ==
  LET a == s.unit[un].UDA
  IN  <<0, (a \div 65536) % 256, (a \div 256) % 256, a % 256>>

(* c[0 .. 3] of DPS_SENSE: the disk address, high byte first; dp_set_sense *)
(* adds nothing to these bytes                                             *)
SenseAddr(s, un) ==
  LET a == s.unit[un].UDA
  IN  <<(a \div 16777216) % 256, (a \div 65536) % 256, (a \div 256) % 256, a % 256>>

(* the sense tables: flag bits lo .. lo+wd-1 of dp_flags go to bit tpos of *)
(* sense byte byte                                                          *)
dp_sense_10B ==
  <<[byte |-> 7, lo |-> 16, wd |-> 8, tpos |-> 0],
    [byte |-> 8, lo |-> 0, wd |-> 1, tpos |-> 6],
    [byte |-> 8, lo |-> 2, wd |-> 1, tpos |-> 2],
    [byte |-> 9, lo |-> 24, wd |-> 1, tpos |-> 0]>>

dp_sense_16B ==
  <<[byte |-> 8, lo |-> 0, wd |-> 1, tpos |-> 7],
    [byte |-> 8, lo |-> 3, wd |-> 1, tpos |-> 3],
    [byte |-> 8, lo |-> 7, wd |-> 1, tpos |-> 2],
    [byte |-> 14, lo |-> 24, wd |-> 8, tpos |-> 0],
    [byte |-> 15, lo |-> 16, wd |-> 8, tpos |-> 0]>>

(* what entries i .. of table tab OR into sense byte b for the flags f;   *)
(* the entries of one byte have no bit in common                           *)
RECURSIVE SenseOr(_, _, _, _)
SenseOr(tab, i, b, f) ==
  IF i > Len(tab) THEN 0
  ELSE (IF tab[i].byte = b
          THEN ((f \div Pow2(tab[i].lo)) % Pow2(tab[i].wd)) * Pow2(tab[i].tpos)
          ELSE 0)
       + SenseOr(tab, i + 1, b, f)

(* c[0 .. 15] of DPS_SENSE, s: the state after dp_set_sense set the arm   *)
(* in motion flag; the main unit is off the event queue while its service *)
(* routine runs, so bit 0x80 of c[4] is never set; the unit number is     *)
(* below 16 and the drive id a multiple of 32; the bytes the tables OR    *)
(* into (7, 8, 9 and 8, 14, 15) are zero before                            *)
SenseBytes(s, un, now) ==
  LET q16 == ~DP_Q10B(s.ctx.dp_ctype)
      tab == IF q16 THEN dp_sense_16B ELSE dp_sense_10B
      base == [i \in 0 .. 15 |->
                 CASE i < 4 -> SenseAddr(s, un)[i + 1]
                   [] i = 4 -> GET_PSC(now, DpTime, dp_tab[Dtype(un)].sc)
                   [] i = 5 /\ q16 -> un + dp_tab[Dtype(un)].id
                   [] i = 7 /\ s.ctx.dp_ctype = DP_C3281 -> un
                   [] i = 10 /\ q16 -> (s.ctx.dp_ski \div 256) % 256
                   [] i = 11 /\ q16 -> s.ctx.dp_ski % 256
                   [] OTHER -> 0]
  IN  [i \in 0 .. 15 |-> base[i] + SenseOr(tab, 1, i, s.ctx.dp_flags)]

(* DPS_SENSE: lnt bytes are stored, the last one with status xst; out      *)
(* holds the bytes that reached memory                                     *)
dp_svc_sense(s, un, lnt, xst, care, irq, now) ==
  LET n == IF xst = "err" THEN lnt - 1 ELSE lnt
      s0 == dp_set_sense(s, un)
      c == SenseBytes(s0, un, now)
      s1 == [s0 EXCEPT !.out = [i \in 1 .. n |-> c[i - 1]]]
  IN  IF xst = "err" THEN dp_chan_err(s1, un, irq)
      ELSE IF lnt # DPS_NBY(s.ctx) \/ xst # "zbc"
             THEN LET s2 == chan_set_chf(SetFlag(s1, DPF_PGE), un, care, irq)
                  IN  IF care THEN s2 ELSE SchedEnd(s2, un)
             ELSE SchedEnd(s1, un)

(* DPS_TEST: nerr is the byte at which the channel fails, -1 if none; wd  *)
(* are the bytes read                                                      *)
dp_test_mode(s, un, nerr, wd, irq) ==
  LET nby == DPT_NBY(s.ctx)
      got == IF nerr < 0 THEN nby ELSE nerr
      v == (IF got >= 1 THEN wd[1] % 256 ELSE 0)
           + (IF got >= 2 THEN (wd[2] % 256) * 256 ELSE 0)
      s1 == [s EXCEPT !.ctx.dp_test = v]
  IN  IF nerr >= 0 THEN dp_chan_err(s1, 0, irq) ELSE SchedEnd(s1, un)

(* DPS_RSRV, DPS_RLS, DPS_RLSA, and the commands with no case *)
dp_svc_nop(s, un) == SchedEnd(s, un)

(* ---------------- unit service ---------------- *)
(* in: what the channel and the backing store answer during this call *)
dp_svc(s, un, in) ==
  LET cmd == s.unit[un].UCMD
  IN  CASE cmd = DPS_INIT ->
             dp_svc_init(s, un, in.gst, in.cmd, in.cch, in.now, in.irq)
        [] cmd = DPS_END -> dp_svc_end(s, un, in.est, in.irq)
        [] cmd \in {DPS_SEEK, DPS_SEEKI} ->
             dp_svc_seek(s, un, in.lnt, in.xst, in.c, in.care, in.irq)
        [] cmd \in {DPS_RECAL, DPS_RECALI} -> dp_svc_recal(s, un)
        [] cmd = DPS_SENSE ->
             dp_svc_sense(s, un, in.lnt, in.xst, in.care, in.irq, in.now)
        [] cmd = DPS_WRITE ->
             dp_svc_write(s, un, in.lnt, in.xst, in.ioerr, in.care, in.irq, in.wds,
                          in.part)
        [] cmd = DPS_WHDR ->
             dp_svc_whdr(s, un, in.lnt, in.xst, in.care, in.irq, in.in2)
        [] cmd = DPS_CHECK ->
             dp_svc_check(s, un, in.lnt, in.xst, in.ioerr, in.care, in.irq, in.wds)
        [] cmd = DPS_READ ->
             dp_svc_read(s, un, in.lnt, in.xst, in.ioerr, in.care, in.irq)
        [] cmd = DPS_RHDR -> dp_svc_rhdr(s, un, in.lnt, in.xst, in.care, in.irq)
        [] cmd = DPS_TEST -> dp_test_mode(s, un, in.nerr, in.wd, in.irq)
        [] OTHER -> dp_svc_nop(s, un)

(* ---------------- inputs ---------------- *)
(* <<cidx, un>> of a dispatch: every enabled drive, a disabled drive, the  *)
(* controller address, and a controller index that does not exist          *)
AllDisp == {<<0, un>> : un \in Drives \cup {NDrives, DP_CONT}} \cup {<<DP_NUMCTL, 0>>}

CtlDisp == {<<0, un>> : un \in Drives \cup {DP_CONT}}

(* dp_unit[un + DP_SEEK] lies outside the unit array for the controller     *)
(* address: what a status routine reads there is not determined; a unit    *)
(* that fails the validity test is never read                               *)
OobInputs(un) ==
  IF un + DP_SEEK \in UnitIdx \/ ~UnitExists(S, un) THEN {FALSE} ELSE BOOLEAN

(* the controller types the model is run for: the type controller A has   *)
(* after construction (10-byte family), and the T3281 (16-byte family),    *)
(* the one type that has the controller pseudo-unit                         *)
CTypes == {DP_C7270, DP_C3281}

(* the command codes a channel program holds; 0 is not a command *)
CtlCmds == {0, DPS_SEEKI, DPS_CRION}

(* the four address bytes of a seek *)
CtlTargets == {<<0, MaxCyl, 0, 0>>}

XferSt == {"ok", "zbc", "err"}

(* the commands that move a sector *)
DataCmds == {DPS_WRITE, DPS_WHDR, DPS_CHECK, DPS_READ, DPS_RHDR}

(* the sector number of the address of drive un, counted from the start of *)
(* the pack                                                                  *)
SecNo(un) == WordAddr(S, un) \div DP_WDSC

(* the address of drive un is in the last MaxSec sectors of a cylinder *)
LastSectors(un) ==
  /\ ~dp_inv_ad(S, un)
  /\ DPA_GETHD(unit[un].UDA) = dp_tab[Dtype(un)].hd - 1
  /\ DPA_GETSC(unit[un].UDA) >= dp_tab[Dtype(un)].sc - MaxSec

(* the channel programs move the first MaxSec sectors of the pack and the  *)
(* last MaxSec sectors of a cylinder: a command that moves a sector is     *)
(* issued to a drive that stands there or outside its geometry, where no   *)
(* sector is moved, and the channel asks for a further sector while the    *)
(* next one is below MaxSec or the drive is at the end of a cylinder       *)
OfferedCmds(un) ==
  {c \in cfg.cmds :
     c \in DataCmds => SecNo(un) < MaxSec \/ dp_inv_ad(S, un) \/ LastSectors(un)}

XferStAt(un) ==
  IF SecNo(un) + 1 < MaxSec \/ LastSectors(un) THEN XferSt ELSE XferSt \ {"ok"}

(* the loop count when a transfer loop of exp items ends with status xst *)
LntInputs(exp, xst) == IF xst = "zbc" THEN {1, exp} ELSE {exp}

TestBytes == {<<0, 0>>, <<165, 165>>}

Geom == dp_tab[cfg.dtype]

(* the simulated times at which a data command is fetched: the start, the  *)
(* last word of sector 0, the first of sector 1, inside the last sector   *)
(* of the track, and three times in later revolutions                     *)
NowInputs ==
  LET w == DpTime * DP_WDSC
  IN  {0, w - 1, w, (Geom.sc - 1) * w + 5, Geom.sc * w, (Geom.sc + 2) * w + 7,
       (3 * Geom.sc - 1) * w + 255}

(* the simulated times at which a Sense runs: the start, and a time in   *)
(* the second revolution                                                   *)
SenseTimes == {0, (Geom.sc + 2) * DpTime * DP_WDSC + 7}

In0 == [gst |-> "ok", cmd |-> 0, cch |-> FALSE, now |-> 0, est |-> "end",
        xst |-> "zbc", lnt |-> 0, c |-> <<0, 0, 0, 0>>, care |-> FALSE,
        irq |-> FALSE, ioerr |-> FALSE, nerr |-> -1, wd |-> <<0, 0>>,
        wds |-> <<>>, part |-> FALSE,
        in2 |-> [lnt |-> 0, xst |-> "zbc", ioerr |-> FALSE, care |-> FALSE,
                 wds |-> <<>>]]

(* the command passes the two checks of the INIT state *)
CmdOk(un, c) == ctx.dp_ctype \in dp_cmd(c).ct /\ (un = DP_CONT => dp_cmd(c).C)

(* the answers dp_svc can get for the command state of unit un *)
SvcInputs(un) ==
  LET cmd == unit[un].UCMD
  IN  CASE cmd = DPS_INIT ->
             {[In0 EXCEPT !.gst = "err", !.irq = q] : q \in BOOLEAN}
             \cup UNION {{[In0 EXCEPT !.cmd = c, !.cch = h, !.now = p, !.irq = q] :
                            h \in BOOLEAN,
                            p \in IF CmdOk(un, c) /\ ~dp_cmd(c).F THEN NowInputs ELSE {0},
                            q \in IF CmdOk(un, c) THEN {FALSE} ELSE BOOLEAN} :
                          c \in OfferedCmds(un)}
        [] cmd = DPS_END ->
             {[In0 EXCEPT !.est = e, !.irq = q] : e \in {"end", "err"}, q \in BOOLEAN}
        [] cmd \in {DPS_SEEK, DPS_SEEKI} ->
             {[In0 EXCEPT !.xst = "err", !.irq = q] : q \in BOOLEAN}
             \cup {[In0 EXCEPT !.xst = "ok", !.lnt = 4, !.c = c, !.care = k, !.irq = q] :
                     c \in cfg.targets, k \in BOOLEAN, q \in BOOLEAN}
             \cup {[In0 EXCEPT !.xst = "zbc", !.lnt = n, !.c = c, !.care = k, !.irq = q] :
                     n \in {3, 4}, c \in cfg.targets, k \in BOOLEAN, q \in BOOLEAN}
        [] cmd = DPS_SENSE ->
             UNION {{[In0 EXCEPT !.xst = x, !.lnt = n, !.care = k, !.irq = q, !.now = p] :
                       n \in LntInputs(DPS_NBY(ctx), x), k \in BOOLEAN, q \in BOOLEAN,
                       p \in SenseTimes} :
                    x \in XferSt}
        [] cmd = DPS_WRITE ->
             UNION {{[In0 EXCEPT !.xst = x, !.lnt = n, !.ioerr = e, !.care = k,
                                 !.irq = q, !.wds = w, !.part = p] :
                       n \in LntInputs(DP_WDSC, x), k \in BOOLEAN,
                       q \in BOOLEAN, w \in DataIn,
                       p \in IF e /\ x # "err" THEN BOOLEAN ELSE {FALSE}} :
                    x \in XferStAt(un), e \in BOOLEAN}
        [] cmd = DPS_WHDR ->
             UNION {{[In0 EXCEPT !.xst = x, !.lnt = n, !.care = k, !.irq = q,
                                 !.in2 = [lnt |-> DP_WDSC * 4, xst |-> x2,
                                          ioerr |-> e, care |-> k, wds |-> w]] :
                       n \in LntInputs(8, x), k \in BOOLEAN, q \in BOOLEAN,
                       x2 \in XferStAt(un), e \in BOOLEAN, w \in DataIn} :
                    x \in XferSt}
        [] cmd = DPS_CHECK ->
             UNION {{[In0 EXCEPT !.xst = x, !.lnt = n, !.ioerr = e, !.care = k,
                                 !.irq = q, !.wds = w] :
                       n \in LntInputs(DP_WDSC * 4, x), e \in BOOLEAN, k \in BOOLEAN,
                       q \in BOOLEAN, w \in DataIn} :
                    x \in XferStAt(un)}
        [] cmd = DPS_READ ->
             UNION {{[In0 EXCEPT !.xst = x, !.lnt = n, !.ioerr = e, !.care = k, !.irq = q] :
                       n \in LntInputs(DP_WDSC, x), e \in BOOLEAN, k \in BOOLEAN,
                       q \in BOOLEAN} :
                    x \in XferStAt(un)}
        [] cmd = DPS_RHDR ->
             UNION {{[In0 EXCEPT !.xst = x, !.lnt = n, !.care = k, !.irq = q] :
                       n \in LntInputs(8, x), k \in BOOLEAN, q \in BOOLEAN} :
                    x \in XferSt}
        [] cmd = DPS_TEST ->
             {[In0 EXCEPT !.nerr = n, !.wd = w, !.irq = q] :
                n \in -1 .. (DPT_NBY(ctx) - 1), w \in TestBytes, q \in BOOLEAN}
        [] OTHER -> {In0}

(* ---------------- initial state ---------------- *)
(* file: the sectors of the attached file that were written, by the word   *)
(* address of the sector; a new file holds none                            *)
IdleUnit == [act |-> FALSE, UDA |-> 0, UCMD |-> 0, file |-> NoData]

(* the number of drives left enabled: the T3281 runs commands on its      *)
(* controller pseudo-unit as well and is configured with one drive fewer   *)
EnabledDrives(ct) == IF ct = DP_C3281 THEN NDrives - 1 ELSE NDrives

(* the controller after construction; prof: the controller types, the     *)
(* channel programs and the addresses the run is made for                  *)
InitWith(prof) ==
  /\ \E ct \in prof.ctypes :
       /\ ctx = [dp_ctype |-> ct, dp_flags |-> 0, dp_ski |-> 0, dp_test |-> 0]
       /\ \E ro \in prof.ro :
            cfg = [dtype |-> DefaultDtype(ct), ndr |-> EnabledDrives(ct), ro |-> ro,
                   cmds |-> prof.cmds, targets |-> prof.targets, disp |-> prof.disp,
                   data |-> prof.data]
  /\ unit = [u \in UnitIdx |-> IdleUnit]
  /\ chan = [chi |-> -1, inp |-> FALSE, cch |-> FALSE]

Init == InitWith([ctypes |-> CTypes, cmds |-> CtlCmds, targets |-> CtlTargets,
                  disp |-> AllDisp, ro |-> {[d \in Drives |-> FALSE]},
                  data |-> {"zero"}])

(* ---------------- actions ---------------- *)
(* a handler ends in state s *)
Done(s) == Commit(s) /\ UNCHANGED cfg

(* a call of dp_disp by the channel *)
Disp(op, cidx, un, oob, irq) == Done(dp_disp(S, cidx, op, un, oob, irq).s)

SIO == \E a \in cfg.disp : \E oob \in OobInputs(a[2]) :
         Disp("SIO", a[1], a[2], oob, FALSE)

TIO == \E a \in cfg.disp : \E oob \in OobInputs(a[2]) :
         Disp("TIO", a[1], a[2], oob, FALSE)

TDV == \E a \in cfg.disp : \E oob \in OobInputs(a[2]) :
         Disp("TDV", a[1], a[2], oob, FALSE)

(* irq: the halted command asked for an interrupt on unusual end; it is   *)
(* read only when the HIO stops a unit                                     *)
IrqInputs(un) ==
  IF UnitExists(S, un) /\ \E i \in Drives : (un \in {i, DP_CONT} /\ unit[i].act)
    THEN BOOLEAN ELSE {FALSE}

HIO == \E a \in cfg.disp : \E irq \in IrqInputs(a[2]), oob \in OobInputs(a[2]) :
         Disp("HIO", a[1], a[2], oob, irq)

AIO == \E a \in cfg.disp : \E oob \in OobInputs(dp_clr_int(S)[2]) :
         Disp("AIO", a[1], a[2], oob, FALSE)

BadOp == \E a \in cfg.disp : Disp("BAD", a[1], a[2], FALSE, FALSE)

(* the main units: the drives and the controller pseudo-unit *)
MainUnits == Drives \cup {DP_CONT}

(* the event queue fires main unit un: the unit leaves the queue and dp_svc runs *)
SvcStep(un, in) == dp_svc(sim_cancel(S, un), un, in)

Svc ==
  \E un \in MainUnits :
    /\ unit[un].act
    /\ \E in \in SvcInputs(un) : Done(SvcStep(un, in))

(* the event queue fires the seek unit of drive un *)
SeekStep(un) == dps_svc(sim_cancel(S, un + DP_SEEK), un)

SeekSvc ==
  \E un \in Drives :
    /\ unit[un + DP_SEEK].act
    /\ Done(SeekStep(un))

Reset == Done(dp_reset(S))

Next == SIO \/ TIO \/ TDV \/ HIO \/ AIO \/ BadOp \/ Svc \/ SeekSvc \/ Reset

Spec == Init /\ [][Next]_vars

(* ======================= properties ======================= *)
(* the units of controller 0 that the channel addresses and that exist *)
LiveUnits == {a[2] : a \in {b \in cfg.disp : b[1] < DP_NUMCTL /\ UnitExists(S, b[2])}}

(* the outcome of one dispatch made in the current state *)
DispAt(op, un, oob, irq) == dp_disp(S, 0, op, un, oob, irq)

(* the handler left the controller, the units and the channel as they were, *)
(* scheduled nothing and signalled nothing                                  *)
Untouched(r) == r.s = S

SkiSet(c, i) == TestBit(c.dp_ski, Pow2(i))

Busy(f) == f \cap {"CBUSY", "DBUSY"} # {}

(* C1: an SIO made while a controller interrupt is pending answers CC2 and *)
(* changes nothing: no seek interrupt is cleared, no timer is scheduled,   *)
(* no unit changes its command state                                        *)
C1_SioChiPending ==
  \A un \in LiveUnits : \A oob \in OobInputs(un) :
    chan_chk_chi(S) >= 0 =>
      LET r == DispAt("SIO", un, oob, FALSE)
      IN  r.rc = "OK" /\ "CC2" \in r.dvst.flags /\ Untouched(r)

(* a controller interrupt is pending, another drive holds a seek interrupt, *)
(* the addressed drive is idle, and SIO answers CC2                          *)
C1_Witness ==
  \E un \in LiveUnits :
    /\ chan.chi >= 0
    /\ ctx.dp_ski # 0
    /\ ~SkiSet(ctx, un)
    /\ ~Busy(dp_tio_status(S, un, FALSE))
    /\ "CC2" \in DispAt("SIO", un, FALSE, FALSE).dvst.flags

(* C2: an SIO to a drive whose seek interrupt is set answers CC2 and        *)
(* changes nothing, whatever the controller interrupt and the seek          *)
(* interrupts of the other drives are                                       *)
C2_SioSkiPending ==
  \A un \in LiveUnits : \A oob \in OobInputs(un) :
    SkiSet(ctx, un) =>
      LET r == DispAt("SIO", un, oob, FALSE)
      IN  r.rc = "OK" /\ "CC2" \in r.dvst.flags /\ Untouched(r)

(* no controller interrupt, the seek interrupts of the addressed drive and *)
(* of another drive are set, and SIO answers CC2                            *)
C2_Witness ==
  \E un \in LiveUnits : \E i \in Drives :
    /\ i # un
    /\ chan.chi < 0
    /\ SkiSet(ctx, un) /\ SkiSet(ctx, i)
    /\ "CC2" \in DispAt("SIO", un, FALSE, FALSE).dvst.flags

(* C3: an SIO that passes the two interrupt checks clears every seek        *)
(* interrupt that was set, schedules the seek unit of each such drive       *)
(* 10 * chan_ctl_time ahead in the DSC_SEEKW state, and leaves dp_ski = 0   *)
C3_SioKnockDown ==
  \A un \in LiveUnits : \A oob \in OobInputs(un) :
    (chan_chk_chi(S) < 0 /\ ~SkiSet(ctx, un)) =>
      LET r == DispAt("SIO", un, oob, FALSE)
      IN  /\ r.s.ctx.dp_ski = 0
          /\ \A i \in 0 .. (DP_NUMDR(ctx) - 1) :
               SkiSet(ctx, i) =>
                 /\ i + DP_SEEK \in UnitIdx
                 /\ r.s.unit[i + DP_SEEK].act
                 /\ r.s.unit[i + DP_SEEK].UCMD = DSC_SEEKW
                 /\ <<i + DP_SEEK, 10 * chan_ctl_time>> \in r.s.sched

(* another drive holds a seek interrupt when an SIO passes the checks *)
C3_Witness ==
  \E un \in LiveUnits : \E i \in Drives :
    /\ i # un
    /\ chan.chi < 0
    /\ ~SkiSet(ctx, un) /\ SkiSet(ctx, i)
    /\ DispAt("SIO", un, FALSE, FALSE).s.unit[i + DP_SEEK].act

(* some drive of the controller has its main unit on the event queue *)
SomeDriveActive == \E i \in 0 .. (DP_NUMDR(ctx) - 1) : i \in UnitIdx /\ unit[i].act

(* the main unit or the seek unit of drive un is on the event queue *)
DriveActive(un) == unit[un].act \/ unit[un + DP_SEEK].act

(* C5: an SIO that passes the interrupt checks starts the addressed drive  *)
(* (state DPS_INIT, scheduled chan_ctl_time ahead) when no drive's main     *)
(* unit and neither unit of the addressed drive is scheduled; otherwise it  *)
(* leaves the drive's main unit as it was and answers busy                  *)
C5_SioStart ==
  \A un \in LiveUnits \cap Drives :
    (chan_chk_chi(S) < 0 /\ ~SkiSet(ctx, un)) =>
      LET r == DispAt("SIO", un, FALSE, FALSE)
      IN  IF ~SomeDriveActive /\ ~DriveActive(un)
            THEN /\ r.s.unit[un].UCMD = DPS_INIT
                 /\ r.s.unit[un].act
                 /\ {e \in r.s.sched : e[1] = un} = {<<un, chan_ctl_time>>}
                 /\ ~Busy(r.dvst.flags)
            ELSE /\ r.s.unit[un] = unit[un]
                 /\ {e \in r.s.sched : e[1] = un} = {}
                 /\ Busy(r.dvst.flags)
                 /\ "CC2" \in r.dvst.flags

(* the addressed drive is idle, the main unit of another drive is         *)
(* scheduled and a seek interrupt is set: the SIO passes the checks, knocks *)
(* the interrupt down and starts nothing                                    *)
C5_Witness ==
  \E un \in LiveUnits \cap Drives :
    /\ chan.chi < 0 /\ ~SkiSet(ctx, un)
    /\ ~DriveActive(un)
    /\ SomeDriveActive
    /\ ctx.dp_ski # 0
    /\ unit[un].UCMD # DPS_INIT
    /\ DispAt("SIO", un, FALSE, FALSE).s.unit[un] = unit[un]

(* C6: TIO answers controller busy exactly when the main unit of some      *)
(* drive is scheduled, device busy exactly when the main unit or the seek   *)
(* unit of the addressed drive is scheduled, and changes nothing            *)
C6_TioStatus ==
  \A un \in LiveUnits \cap Drives :
    LET r == DispAt("TIO", un, FALSE, FALSE)
    IN  /\ r.rc = "OK"
        /\ ("CBUSY" \in r.dvst.flags) = SomeDriveActive
        /\ ("DBUSY" \in r.dvst.flags) = DriveActive(un)
        /\ Untouched(r)

(* only the seek unit of the addressed drive is scheduled: TIO answers     *)
(* device busy and not controller busy                                      *)
C6_Witness ==
  \E un \in LiveUnits \cap Drives :
    /\ unit[un + DP_SEEK].act /\ ~unit[un].act
    /\ ~SomeDriveActive
    /\ DispAt("TIO", un, FALSE, FALSE).dvst.flags \cap {"CBUSY", "DBUSY"} = {"DBUSY"}

(* the lowest drive whose seek interrupt is set *)
LowestSki == CHOOSE i \in 0 .. (DP_NUMDR_16B - 1) :
               SkiSet(ctx, i) /\ \A j \in 0 .. (i - 1) : ~SkiSet(ctx, j)

(* C8: AIO acknowledges one interrupt: a pending controller interrupt is   *)
(* cleared and its unit returned, with dp_ski untouched; only without one   *)
(* is the lowest set seek interrupt cleared and its drive returned          *)
C8_AioPriority ==
  \A un \in LiveUnits : \A oob \in OobInputs(dp_clr_int(S)[2]) :
    LET r == DispAt("AIO", un, oob, FALSE)
    IN  /\ r.rc = "OK"
        /\ chan.chi >= 0 =>
             /\ r.s.chan.chi < 0
             /\ r.dvst.un = chan.chi
             /\ r.s.ctx.dp_ski = ctx.dp_ski
        /\ (chan.chi < 0 /\ ctx.dp_ski # 0) =>
             /\ r.s.chan.chi < 0
             /\ r.dvst.un = LowestSki
             /\ r.s.ctx.dp_ski = ctx.dp_ski - Pow2(LowestSki)
        /\ (chan.chi < 0 /\ ctx.dp_ski = 0) =>
             /\ r.s.chan.chi < 0
             /\ r.s.ctx.dp_ski = 0
        /\ r.s.unit = unit

(* a controller interrupt of drive 1 and the seek interrupt of drive 0 are *)
(* pending together: AIO returns drive 1 and keeps the seek interrupt       *)
C8_Witness ==
  /\ chan.chi = 1
  /\ SkiSet(ctx, 0)
  /\ DispAt("AIO", 0, FALSE, FALSE).dvst.un = 1
  /\ DispAt("AIO", 0, FALSE, FALSE).s.ctx.dp_ski = ctx.dp_ski

(* C9: the device-interrupt-pending line is asserted exactly when a        *)
(* controller interrupt is pending or dp_ski is not zero                    *)
C9_IntLine == chan.inp = (chan.chi >= 0 \/ ctx.dp_ski # 0)

(* the line is held by a seek interrupt alone, a unit being scheduled *)
C9_Witness ==
  /\ chan.inp
  /\ chan.chi < 0
  /\ ctx.dp_ski # 0
  /\ \E u \in UnitIdx : unit[u].act

(* C10: HIO to a drive leaves its main unit and its seek unit unscheduled  *)
(* and its seek interrupt clear, signals unusual end when the main unit was *)
(* scheduled, keeps a controller interrupt that belongs to another unit,    *)
(* and leaves the units and seek interrupts of the other drives as they were *)
C10_HioDrive ==
  \A un \in LiveUnits \cap Drives : \A irq \in BOOLEAN :
    LET r == DispAt("HIO", un, FALSE, irq)
    IN  /\ r.rc = "OK"
        /\ ~r.s.unit[un].act
        /\ ~r.s.unit[un + DP_SEEK].act
        /\ ~SkiSet(r.s.ctx, un)
        /\ (un \in r.s.uen) = unit[un].act
        /\ (chan.chi >= 0 /\ chan.chi # un) => r.s.chan.chi >= 0
        /\ (chan.chi = un /\ ~(unit[un].act /\ irq)) => r.s.chan.chi < 0
        /\ \A u \in UnitIdx \ {un, un + DP_SEEK} : r.s.unit[u] = unit[u]
        /\ \A i \in Drives \ {un} : SkiSet(r.s.ctx, i) = SkiSet(ctx, i)

(* HIO to a drive whose main unit is scheduled while another drive holds a *)
(* seek interrupt and has its seek unit scheduled                           *)
C10_Witness ==
  \E un \in LiveUnits \cap Drives : \E i \in Drives \ {un} :
    /\ unit[un].act
    /\ SkiSet(ctx, i) \/ unit[i + DP_SEEK].act
    /\ un \in DispAt("HIO", un, FALSE, FALSE).s.uen

(* ---------------- TDV as a function of the controller state ---------------- *)
(* every controller type *)
AllCTypes == {DP_C7240, DP_C7270, DP_C7260, DP_C7265, DP_C7275, DP_C3281}

(* status flag words a command leaves behind: none, program error,         *)
(* invalid address with end of cylinder, write protect, data error          *)
TdvFlags == {0, DPF_PGE, DPF_IVA + DPF_EOC, DPF_WPE, DPF_DPE}

(* a seek unit: idle after reset or after its event, seeking, or knocked down *)
TdvSeekUnits ==
  {[act |-> a, UDA |-> 0, UCMD |-> c, file |-> NoData] :
     a \in BOOLEAN, c \in {DSC_SEEK, DSC_SEEKI, DSC_SEEKW}}

InitTdv ==
  /\ \E ct \in AllCTypes, f \in TdvFlags :
       /\ ctx = [dp_ctype |-> ct, dp_flags |-> f, dp_ski |-> 0, dp_test |-> 0]
       /\ cfg = [dtype |-> DefaultDtype(ct), ndr |-> EnabledDrives(ct),
                 ro |-> [d \in Drives |-> FALSE],
                 cmds |-> {}, targets |-> {}, disp |-> AllDisp,
                 data |-> {"zero"}]
  /\ \E sk \in [Drives -> TdvSeekUnits] :
       unit = [u \in UnitIdx |-> IF u - DP_SEEK \in Drives THEN sk[u - DP_SEEK]
                                  ELSE IdleUnit]
  /\ chan = [chi |-> -1, inp |-> FALSE, cch |-> FALSE]

SpecTdv == InitTdv /\ [][TDV]_vars

(* the addressed drive is on cylinder *)
OnCylinder(un) == ~unit[un + DP_SEEK].act \/ unit[un + DP_SEEK].UCMD = DSC_SEEKW

HasFlag(f) == TestBit(ctx.dp_flags, f)

(* C7: TDV answers, for the 10-byte family, 0x20 exactly when DPF_IVA or   *)
(* DPF_PGE is set and 0x04 exactly when the drive is on cylinder; for the   *)
(* 16-byte family 0x20 exactly when DPF_PGE is set and 0x08 exactly when    *)
(* DPF_WPE is set; no other bit is set and nothing changes                  *)
C7_TdvStatus ==
  \A un \in LiveUnits : \A oob \in OobInputs(un) :
    LET r == DispAt("TDV", un, oob, FALSE)
        st == r.dvst.st
    IN  /\ r.rc = "OK"
        /\ Untouched(r)
        /\ IF DP_Q10B(ctx.dp_ctype)
             THEN st = (IF HasFlag(DPF_IVA) \/ HasFlag(DPF_PGE) THEN 32 ELSE 0)
                       + (IF OnCylinder(un) THEN 4 ELSE 0)
             ELSE st = (IF HasFlag(DPF_PGE) THEN 32 ELSE 0)
                       + (IF HasFlag(DPF_WPE) THEN 8 ELSE 0)

(* a 10-byte controller holding the invalid-address flag alone, the drive  *)
(* seeking: TDV answers 0x20 without 0x04                                   *)
C7_Witness ==
  \E un \in LiveUnits :
    /\ DP_Q10B(ctx.dp_ctype)
    /\ HasFlag(DPF_IVA) /\ ~HasFlag(DPF_PGE)
    /\ ~OnCylinder(un)
    /\ DispAt("TDV", un, FALSE, FALSE).dvst.st = 32

(* ---------------- the knocked-down seek interrupt ---------------- *)
(* the event queue fires the seek unit of drive i *)
SeekFire(i) == unit[i + DP_SEEK].act /\ Done(SeekStep(i))

(* every scheduled seek-completion event is delivered when its time comes *)
FairSpec == Spec /\ \A i \in Drives : WF_vars(SeekFire(i))

(* the seek unit of drive i is scheduled and waits to interrupt *)
KnockedDown(i) == unit[i + DP_SEEK].act /\ unit[i + DP_SEEK].UCMD = DSC_SEEKW

(* the step is an HIO to unit un *)
HaltStep(un) ==
  \E irq \in BOOLEAN : \E oob \in OobInputs(un) :
    LET r == DispAt("HIO", un, oob, irq)
    IN  r.rc = "OK" /\ ctx' = r.s.ctx /\ unit' = r.s.unit /\ chan' = r.s.chan

(* the step is a reset *)
ResetStep ==
  LET s == dp_reset(S)
  IN  ctx' = s.ctx /\ unit' = s.unit /\ chan' = s.chan

(* C4: a knocked-down seek interrupt is deferred, not dropped: the waiting *)
(* seek unit leaves the event queue only by setting the drive's seek        *)
(* interrupt, by an HIO to the drive or to the controller, or by a reset;   *)
(* and once no controller interrupt is pending any more, it does leave      *)
C4_Deferred ==
  /\ [][\A i \in Drives :
          (KnockedDown(i) /\ ~KnockedDown(i)') =>
            \/ SkiSet(ctx', i)
            \/ HaltStep(i) \/ HaltStep(DP_CONT)
            \/ ResetStep]_vars
  /\ (<>[](chan.chi < 0)) => \A i \in Drives : (KnockedDown(i) ~> ~KnockedDown(i))

(* drive i waits to interrupt while another drive that was started later   *)
(* is about to run its INIT state                                           *)
C4_Witness ==
  \E i \in Drives : \E j \in Drives \ {i} :
    /\ KnockedDown(i)
    /\ chan.chi < 0
    /\ unit[j].act /\ unit[j].UCMD = DPS_INIT

(* ---------------- HIO to the controller address ---------------- *)
(* no unit of the controller is on the event queue in state s *)
NoCallback(s) == \A u \in UnitIdx : ~s.unit[u].act

(* what HIO to the controller address leaves for the drives *)
DrivesHalted(s) ==
  /\ \A i \in Drives : ~s.unit[i].act /\ ~s.unit[i + DP_SEEK].act /\ ~SkiSet(s.ctx, i)
  /\ s.ctx.dp_ski = 0
  /\ s.chan.chi < 0

(* C11: after HIO to the controller address every drive's main unit and    *)
(* seek unit are off the event queue, dp_ski is zero and the controller     *)
(* interrupt is cleared, so that no callback of the controller is left      *)
C11_HioController ==
  UnitExists(S, DP_CONT) =>
    \A irq \in BOOLEAN : \A oob \in OobInputs(DP_CONT) :
      LET r == DispAt("HIO", DP_CONT, oob, irq)
      IN  r.rc = "OK" /\ DrivesHalted(r.s) /\ NoCallback(r.s)

(* HIO to the controller address finds a drive running, a seek in flight   *)
(* or an interrupt pending                                                  *)
C11_Witness ==
  /\ UnitExists(S, DP_CONT)
  /\ \E i \in Drives : unit[i].act \/ unit[i + DP_SEEK].act \/ SkiSet(ctx, i)
  /\ DrivesHalted(DispAt("HIO", DP_CONT, FALSE, TRUE).s)

(* C11, the part about the drives: it holds in every reachable state *)
C11_DrivesHalted ==
  UnitExists(S, DP_CONT) =>
    \A irq \in BOOLEAN : \A oob \in OobInputs(DP_CONT) :
      DrivesHalted(DispAt("HIO", DP_CONT, oob, irq).s)

(* ---------------- validity of the dispatched address ---------------- *)
(* every controller type, with channel programs that hold an illegal       *)
(* command code and DPS_CRION: no seek is ever started                     *)
InitAll == InitWith([ctypes |-> AllCTypes, cmds |-> {0, DPS_CRION}, targets |-> CtlTargets,
                     disp |-> AllDisp, ro |-> {[d \in Drives |-> FALSE]},
                     data |-> {"zero"}])

NextAll == SIO \/ TIO \/ TDV \/ HIO \/ AIO \/ BadOp \/ Svc \/ Reset

SpecAll == InitAll /\ [][NextAll]_vars

(* the drive index is below the drive count of the family and the drive is *)
(* not disabled                                                             *)
DriveExists(un) == un < DP_NUMDR(ctx) /\ un \in 0 .. (cfg.ndr - 1)

(* every dispatch that can be made in the current state: <<outcome, cidx, un>> *)
Dispatches ==
  {<<dp_disp(S, a[1], op, a[2], oob, irq), a[1], a[2]>> :
     a \in cfg.disp, op \in Ops, oob \in BOOLEAN, irq \in BOOLEAN}

(* C12: dispatch returns no-device and changes no state when the controller *)
(* index is invalid or the addressed drive does not exist; it returns        *)
(* no-device in no other case; unit 0xF exists exactly on the T3281          *)
C12_NoDevice ==
  \A d \in Dispatches :
    LET r == d[1]
        exists == d[2] < DP_NUMCTL /\
                  (DriveExists(d[3]) \/ (d[3] = DP_CONT /\ ctx.dp_ctype = DP_C3281))
    IN  /\ (r.rc = "NODEV") <=> ~exists
        /\ (r.rc = "NODEV") => (Untouched(r) /\ r.dvst = NoStatus)

(* C12 as stated: unit 0xF exists exactly on the controllers of the 16-byte *)
(* family                                                                    *)
C12_NoDevice16B ==
  \A d \in Dispatches :
    LET r == d[1]
        exists == d[2] < DP_NUMCTL /\
                  (DriveExists(d[3]) \/ (d[3] = DP_CONT /\ ~DP_Q10B(ctx.dp_ctype)))
    IN  /\ (r.rc = "NODEV") <=> ~exists
        /\ (r.rc = "NODEV") => (Untouched(r) /\ r.dvst = NoStatus)

(* a 16-byte controller other than the T3281 is busy and is addressed at    *)
(* unit 0xF, at a disabled drive and at a controller that does not exist     *)
C12_Witness ==
  /\ ~DP_Q10B(ctx.dp_ctype) /\ ctx.dp_ctype # DP_C3281
  /\ \E i \in Drives : unit[i].act
  /\ \A a \in {<<0, DP_CONT>>, <<0, NDrives>>, <<DP_NUMCTL, 0>>} :
       a \in cfg.disp /\ dp_disp(S, a[1], "HIO", a[2], FALSE, TRUE).rc = "NODEV"

(* ---------------- disk address increment ---------------- *)
(* drive 0 of every drive type stands at the start of a cylinder *)
InitInc ==
  /\ \E t \in 0 .. 7 :
       /\ ctx = [dp_ctype |-> dp_tab[t].ctype, dp_flags |-> 0, dp_ski |-> 0, dp_test |-> 0]
       /\ cfg = [dtype |-> t, ndr |-> NDrives, ro |-> [d \in Drives |-> FALSE],
                 cmds |-> {}, targets |-> {}, disp |-> AllDisp,
                 data |-> {"zero"}]
  /\ \E cy \in 0 .. MaxCyl :
       unit = [u \in UnitIdx |->
                 IF u = 0 THEN [IdleUnit EXCEPT !.UDA = cy * 65536] ELSE IdleUnit]
  /\ chan = [chi |-> -1, inp |-> FALSE, cch |-> FALSE]

(* one call of dp_inc_ad for drive 0 *)
IncAd == Done(dp_inc_ad(S, 0).s)

SpecInc == InitInc /\ [][IncAd]_vars

(* n calls of dp_inc_ad for drive un from state s: the state reached, the  *)
(* number of calls that reported the wrap, whether the cylinder stayed,    *)
(* whether the wrap was reported exactly on landing on head 0, sector 0;   *)
(* the calls are made in order, first half then second half; UDA is         *)
(* unsigned, the test of its sign only makes the address be computed        *)
(* before the next call is made                                             *)
RECURSIVE IncCycle(_, _, _)
IncCycle(s, un, n) ==
  IF n = 0 \/ s.unit[un].UDA < 0
    THEN [s |-> s, wraps |-> 0, cyl |-> TRUE, at0 |-> TRUE]
  ELSE IF n = 1
    THEN LET r == dp_inc_ad(s, un)
             a == r.s.unit[un].UDA
         IN  [s |-> r.s,
              wraps |-> IF r.wrap THEN 1 ELSE 0,
              cyl |-> DPA_GETCY(a) = DPA_GETCY(s.unit[un].UDA),
              at0 |-> r.wrap <=> (DPA_GETHD(a) = 0 /\ DPA_GETSC(a) = 0)]
    ELSE LET c1 == IncCycle(s, un, n \div 2)
             c2 == IncCycle(c1.s, un, n - (n \div 2))
         IN  [s |-> c2.s,
              wraps |-> c1.wraps + c2.wraps,
              cyl |-> c1.cyl /\ c2.cyl,
              at0 |-> c1.at0 /\ c2.at0]

(* C13: from an address valid for the geometry, sectors * heads increments *)
(* lead back to the same address, never change the cylinder, and report    *)
(* the wrap exactly once, on the step that lands on head 0, sector 0       *)
C13_IncCycle ==
  ~dp_inv_ad(S, 0) =>
    LET c == IncCycle(S, 0, Geom.sc * Geom.hd)
    IN  /\ c.s.unit[0].UDA = unit[0].UDA
        /\ c.cyl
        /\ c.wraps = 1
        /\ c.at0

(* the address is the last sector of the last head of a cylinder that is   *)
(* not cylinder 0: the next increment wraps                                 *)
C13_Witness ==
  /\ ~dp_inv_ad(S, 0)
  /\ DPA_GETCY(unit[0].UDA) = MaxCyl
  /\ DPA_GETHD(unit[0].UDA) = Geom.hd - 1
  /\ DPA_GETSC(unit[0].UDA) = Geom.sc - 1
  /\ dp_inc_ad(S, 0).wrap

(* ======================= sector data ======================= *)
(* seeks to the first sectors of cylinder 0, head 0 *)
XferTargets == {<<0, 0, 0, sc>> : sc \in 0 .. (MaxSec - 1)}

(* a controller of the 10-byte family whose drive 0 seeks, writes, checks *)
(* and reads sectors                                                       *)
InitXfer == InitWith([ctypes |-> {DP_C7270},
                      cmds |-> {DPS_SEEK, DPS_WRITE, DPS_CHECK, DPS_READ},
                      targets |-> XferTargets, disp |-> {<<0, 0>>},
                      ro |-> {[d \in Drives |-> FALSE]},
                      data |-> {"a", "c"}])

SpecXfer == InitXfer /\ [][Next]_vars

(* drive un is about to run the body of command cmd at a valid address *)
AtBody(un, cmd) == unit[un].act /\ unit[un].UCMD = cmd /\ ~dp_inv_ad(S, un)

(* the state after the Write of one full sector wds by drive un *)
WriteSec(un, wds, xst, care, irq) ==
  dp_svc_write(sim_cancel(S, un), un, DP_WDSC, xst, FALSE, care, irq, wds, FALSE)

(* the words a Read of one full sector delivers when drive un of state w *)
(* stands at the address it has in the current state                      *)
ReadBack(w, un, xst, care, irq) ==
  dp_svc_read([w EXCEPT !.unit[un].UDA = unit[un].UDA, !.out = <<>>], un,
              DP_WDSC, xst, FALSE, care, irq).out

(* the sector as the sequence of words the channel stores *)
SecWords(sec) == [i \in 1 .. DP_WDSC |-> sec[i - 1]]

(* the files of state w are those of the current state except for the     *)
(* sector at word address da of drive un                                   *)
OtherSectorsKept(w, un, da) ==
  /\ \A u \in UnitIdx \ {un} : w.unit[u].file = unit[u].file
  /\ \A a \in DOMAIN unit[un].file :
       a # da => a \in DOMAIN w.unit[un].file /\ w.unit[un].file[a] = unit[un].file[a]
  /\ DOMAIN w.unit[un].file \subseteq DOMAIN unit[un].file \cup {da}

(* C14: on a write-enabled drive at an in-range address, a Write of one     *)
(* full sector followed by a Read of the same address, with no storage     *)
(* error, delivers exactly the words written, and the Write leaves every   *)
(* other sector as it was                                                   *)
C14_WriteRead ==
  \A un \in Drives :
    AtBody(un, DPS_WRITE) /\ ~cfg.ro[un] =>
      \A wds \in DataIn : \A xst \in {"ok", "zbc"} : \A care \in BOOLEAN :
        LET w == WriteSec(un, wds, xst, care, FALSE)
        IN  /\ OtherSectorsKept(w, un, WordAddr(S, un))
            /\ \A xrd \in {"ok", "zbc"} :
                 ReadBack(w, un, xrd, care, FALSE) = SecWords(wds)

(* a Write is about to replace a sector while another sector of the drive *)
(* holds data                                                              *)
C14_Witness ==
  /\ AtBody(0, DPS_WRITE)
  /\ WordAddr(S, 0) \in DOMAIN unit[0].file
  /\ \E wds \in DataIn : unit[0].file[WordAddr(S, 0)] # wds
  /\ \E a \in DOMAIN unit[0].file : a # WordAddr(S, 0) /\ unit[0].file[a] # ZeroSec

(* the state after a Write Check by drive un of a full sector of bytes wds *)
CheckSec(un, wds, xst, care, irq) ==
  dp_svc_check(sim_cancel(S, un), un, DP_WDSC * 4, xst, FALSE, care, irq, wds)

(* the sector at the address of drive un *)
SecAt(un) == dp_read(S, un, WordAddr(S, un))

(* the bytes in which sectors a and b differ *)
DiffBytes(a, b) == {i \in 0 .. (DP_WDSC * 4 - 1) : SecByte(a, i) # SecByte(b, i)}

(* the sectors a Write Check is made with: those of the channel programs  *)
(* and the sector that is on the pack                                      *)
CheckData(un) == DataIn \cup {SecAt(un)}

(* C15: a Write Check of a full sector that is identical to the sector on  *)
(* the pack sets no write-check flag, signals no unusual end and completes *)
(* normally (END is scheduled at the end of the byte count, the next       *)
(* sector when the channel asks for more and the cylinder has not ended);  *)
(* if a byte differs the compare stops at the first byte that differs, no  *)
(* later byte is read from the channel, the write-check flag is set,       *)
(* unusual end is signalled and the unit is not scheduled again            *)
C15_WriteCheck ==
  \A un \in Drives :
    AtBody(un, DPS_CHECK) =>
      \A wds \in CheckData(un) : \A xst \in {"ok", "zbc"} : \A care \in BOOLEAN :
        LET r == CheckSec(un, wds, xst, care, FALSE)
            d == DiffBytes(wds, SecAt(un))
        IN  IF d = {}
              THEN /\ ~TestBit(r.ctx.dp_flags, DPF_WCHK)
                   /\ r.got = DP_WDSC * 4
                   /\ xst = "zbc" =>
                        un \notin r.uen /\ r.unit[un].act /\ r.unit[un].UCMD = DPS_END
                   /\ xst = "ok" /\ ~dp_inc_ad(S, un).wrap =>
                        un \notin r.uen /\ r.unit[un].act /\ r.unit[un].UCMD = DPS_CHECK
              ELSE /\ TestBit(r.ctx.dp_flags, DPF_WCHK)
                   /\ \E i \in d : (\A j \in d : i <= j) /\ r.got = i + 1
                   /\ un \in r.uen
                   /\ ~r.unit[un].act
                   /\ r.sched = {}

(* a Write Check is about to compare a sector that was written, and the   *)
(* channel programs hold the same sector and one that differs in its last *)
(* word only                                                               *)
C15_Witness ==
  /\ AtBody(0, DPS_CHECK)
  /\ SecAt(0) \in DataIn
  /\ \E wds \in DataIn : DiffBytes(wds, SecAt(0)) # {} /\
       \A i \in DiffBytes(wds, SecAt(0)) : i >= (DP_WDSC - 1) * 4

(* ======================= the seek scenario ======================= *)
(* seeks to cylinder 10, head 2, sector 0 and to a cylinder above 255 *)
SeekTargets == {<<0, 10, 2, 0>>, <<1, MaxCyl, 0, 1>>}

(* two controllers of the 16-byte family; drive 0 seeks, with and without *)
(* interrupt, and is sensed                                                *)
InitSeek == InitWith([ctypes |-> {DP_C7275, DP_C3281},
                      cmds |-> {DPS_SEEK, DPS_SEEKI, DPS_SENSE},
                      targets |-> SeekTargets, disp |-> {<<0, 0>>},
                      ro |-> {[d \in Drives |-> FALSE]},
                      data |-> {"zero"}])

(* every scheduled seek-completion event is delivered when its time comes *)
FairSeek == InitSeek /\ [][Next]_vars /\ \A i \in Drives : WF_vars(SeekFire(i))

(* (cylinder, head, sector) of four address bytes *)
Decode(b) ==
  LET da == b[1] * 16777216 + b[2] * 65536 + b[3] * 256 + b[4]
  IN  <<DPA_GETCY(da), DPA_GETHD(da), DPA_GETSC(da)>>

(* nothing of the controller is scheduled or pending *)
Idle == NoCallback(S) /\ chan.chi < 0 /\ ctx.dp_ski = 0

(* the seek unit of drive i is scheduled by a seek that asked for the interrupt *)
SeekIPending(i) == unit[i + DP_SEEK].act /\ unit[i + DP_SEEK].UCMD = DSC_SEEKI

(* the seek unit of drive i is scheduled by a seek command *)
SeekPending(i) == unit[i + DP_SEEK].act /\ unit[i + DP_SEEK].UCMD # DSC_SEEKW

(* the step runs the body of a seek command cmds of drive i to its end *)
SeekDone(i, cmds) == unit[i].act /\ unit[i].UCMD \in cmds /\ unit'[i].UCMD = DPS_END

(* the seek unit of drive i is scheduled by a seek of the kind looked at: *)
(* any seek command, or a seek that asked for the interrupt                *)
Wants(i, any) == IF any THEN SeekPending(i) ELSE SeekIPending(i)

(* an SIO to drive 0 of an idle controller is admitted and starts INIT *)
SeekAdmitted ==
  Idle /\ UnitExists(S, 0) =>
    LET r == DispAt("SIO", 0, FALSE, FALSE)
    IN  /\ r.rc = "OK" /\ r.dvst.flags \cap {"CC2", "CBUSY", "DBUSY"} = {}
        /\ r.s.unit[0].act /\ r.s.unit[0].UCMD = DPS_INIT

(* the step schedules the seek unit of drive i for a seek of the kind     *)
(* looked at, and leaves the drive at the address of one of the targets   *)
SeekStarts(i, any) ==
  (Wants(i, any)' /\ ~unit[i + DP_SEEK].act) =>
    \E c \in cfg.targets : Decode(SenseAddr([S EXCEPT !.unit = unit'], i)) = Decode(c)

(* the seek unit of drive i leaves the event queue with no controller     *)
(* interrupt pending: the seek interrupt is set, unless the step is an    *)
(* HIO or a reset                                                          *)
SeekEnds(i, any) ==
  (Wants(i, any) /\ chan.chi < 0 /\ ~unit'[i + DP_SEEK].act) =>
    \/ SkiSet(ctx', i)
    \/ HaltStep(i) \/ HaltStep(DP_CONT) \/ ResetStep

(* the seek unit of drive i has left the queue, set the seek interrupt or *)
(* waits for the controller interrupt to go                                *)
SeekOver(i) == SkiSet(ctx, i) \/ ~unit[i + DP_SEEK].act \/ KnockedDown(i)

(* AIO with the seek interrupt of drive 0 set and no controller interrupt *)
(* pending answers drive 0 and clears the bit                              *)
AioServesDrive0 ==
  SkiSet(ctx, 0) /\ chan.chi < 0 =>
    LET r == DispAt("AIO", 0, FALSE, FALSE)
    IN  r.rc = "OK" /\ r.dvst.un = 0 /\ ~SkiSet(r.s.ctx, 0)

(* a Sense of the full length stores address bytes that decode to the     *)
(* address of the drive and leaves the address as it is                    *)
SenseDecodes ==
  \A i \in Drives :
    unit[i].act /\ unit[i].UCMD = DPS_SENSE =>
      \A care \in BOOLEAN :
        LET r == dp_svc_sense(sim_cancel(S, i), i, DPS_NBY(ctx), "zbc", care, FALSE, 0)
        IN  /\ Len(r.out) = DPS_NBY(ctx)
            /\ Decode(r.out) = <<DPA_GETCY(unit[i].UDA), DPA_GETHD(unit[i].UDA),
                                 DPA_GETSC(unit[i].UDA)>>
            /\ r.unit[i].UDA = unit[i].UDA

(* the address of drive i changes only when a seek command ends or on reset *)
AddressKept(i) ==
  unit'[i].UDA # unit[i].UDA => SeekDone(i, {DPS_SEEK, DPS_SEEKI}) \/ ResetStep

(* C16: on an idle controller of the 16-byte family an SIO to drive 0 is  *)
(* admitted; a Seek with interrupt that is not command-chained leaves the *)
(* drive at the (cylinder, head, sector) of its target and its seek timer *)
(* scheduled; when the timer fires with no controller interrupt pending   *)
(* the drive's seek-interrupt bit is set, and the timer does fire unless  *)
(* it is halted or reset; an AIO made                                      *)
(* with drive 0's bit set and no controller interrupt pending returns     *)
(* drive 0 and clears the bit; and a Sense of the drive stores address    *)
(* bytes that decode to the drive's address, which only a seek or a reset *)
(* changes                                                                 *)
C16_SeekInterrupt ==
  /\ [](SeekAdmitted /\ AioServesDrive0 /\ SenseDecodes)
  /\ [][\A i \in Drives : SeekStarts(i, FALSE) /\ SeekEnds(i, FALSE) /\ AddressKept(i)]_vars
  /\ \A i \in Drives : SeekIPending(i) ~> SeekOver(i)

(* C16 as stated: the same for every seek command, whether or not it asks *)
(* for the interrupt                                                       *)
C16_AnySeek ==
  /\ [](SeekAdmitted /\ AioServesDrive0 /\ SenseDecodes)
  /\ [][\A i \in Drives : SeekStarts(i, TRUE) /\ SeekEnds(i, TRUE) /\ AddressKept(i)]_vars
  /\ \A i \in Drives : SeekPending(i) ~> SeekOver(i)

(* the seek timer of drive 0 is scheduled by a Seek with interrupt to     *)
(* cylinder 10, head 2, sector 0, and no controller interrupt is pending  *)
C16_Witness ==
  /\ SeekIPending(0)
  /\ chan.chi < 0
  /\ Decode(SenseAddr(S, 0)) = <<10, 2, 0>>

(* ======================= the status flags ======================= *)
(* a write-enabled and a write-locked drive 0 on a controller of each     *)
(* family; the drive seeks, writes, writes headers and checks sectors, and *)
(* is given a command that is not in the command table                     *)
InitFlags == InitWith([ctypes |-> {DP_C7270, DP_C7275},
                       cmds |-> {0, DPS_SEEKI, DPS_WRITE, DPS_WHDR, DPS_CHECK},
                       targets |-> {<<0, 0, 0, 1>>}, disp |-> {<<0, 0>>},
                       ro |-> {[d \in Drives |-> FALSE], [d \in Drives |-> d = 0]},
                       data |-> {"a"}])

SpecFlags == InitFlags /\ [][Next]_vars

(* the error flags of the status-flags register *)
ErrFlags == {DPF_PGE, DPF_WPE, DPF_SNZ, DPF_IVA, DPF_EOC, DPF_WCHK, DPF_DPE}

(* the error flags TDV answers for the controller type *)
TdvFlagsOf(ct) == IF DP_Q10B(ct) THEN {DPF_PGE, DPF_IVA} ELSE {DPF_PGE, DPF_WPE}

(* the error bits 0x20 and 0x08 of the TDV answer for unit un *)
TdvErrBits(un) ==
  LET st == DispAt("TDV", un, FALSE, FALSE).dvst.st
  IN  (IF (st \div 32) % 2 = 1 THEN {32} ELSE {}) \cup (IF (st \div 8) % 2 = 1 THEN {8} ELSE {})

(* the step is an INIT state that obtains a command from the channel *)
InitFetch ==
  \E u \in MainUnits :
    /\ unit[u].act /\ unit[u].UCMD = DPS_INIT
    /\ \E in \in SvcInputs(u) :
         /\ in.gst # "err"
         /\ LET s == SvcStep(u, in)
            IN  ctx' = s.ctx /\ unit' = s.unit /\ chan' = s.chan

(* an error flag that is set stays set on every step but an INIT that     *)
(* obtains a command and a reset                                           *)
FlagsStay ==
  \A f \in ErrFlags :
    TestBit(ctx.dp_flags, f) /\ ~TestBit(ctx'.dp_flags, f) => InitFetch \/ ResetStep

(* an INIT that obtains a command leaves no flag of the command before:   *)
(* the register is zero when the command is accepted and holds the        *)
(* program error alone when it is rejected                                 *)
InitClears ==
  \A u \in MainUnits :
    unit[u].act /\ unit[u].UCMD = DPS_INIT =>
      \A in \in SvcInputs(u) :
        in.gst # "err" =>
          LET r == SvcStep(u, in)
          IN  r.ctx.dp_flags = (IF u \in r.uen THEN DPF_PGE ELSE 0)

(* C17: an error flag set by a command stays set until the next INIT that *)
(* obtains a command (or a reset); while it is set TDV answers it if it   *)
(* is one of the flags TDV answers for the family (program error and      *)
(* invalid address on the 10-byte family, program error and write         *)
(* protect on the 16-byte family); and every INIT that obtains a command  *)
(* zeroes the status flags before it validates the command                *)
C17_FlagsUntilInit ==
  /\ [][FlagsStay]_vars
  /\ [](InitClears /\
        (UnitExists(S, 0) =>
           /\ (32 \in TdvErrBits(0)) =
                (\E f \in TdvFlagsOf(ctx.dp_ctype) \ {DPF_WPE} : TestBit(ctx.dp_flags, f))
           /\ (8 \in TdvErrBits(0)) =
                (DPF_WPE \in TdvFlagsOf(ctx.dp_ctype) /\ TestBit(ctx.dp_flags, DPF_WPE))))

(* C17 as stated: every error flag that is set shows in the TDV answer *)
C17_TdvReportsAll ==
  /\ [][FlagsStay]_vars
  /\ [](InitClears /\
        (UnitExists(S, 0) =>
           \A f \in ErrFlags : TestBit(ctx.dp_flags, f) => TdvErrBits(0) # {}))

(* a command has left an error flag that TDV answers and drive 0 is about *)
(* to run the INIT state of the next command                               *)
C17_Witness ==
  /\ unit[0].act /\ unit[0].UCMD = DPS_INIT
  /\ \E f \in TdvFlagsOf(ctx.dp_ctype) : TestBit(ctx.dp_flags, f)
  /\ TdvErrBits(0) # {}

(* ======================= backing store errors ======================= *)
(* the outcomes of the body of command cmd of drive un when the backing   *)
(* store fails: the channel's answers are any of those a run can have     *)
IoErrOutcomes(un, cmd) ==
  {dp_svc(sim_cancel(S, un), un, in) :
     in \in {i \in SvcInputs(un) : i.ioerr /\ (cmd = DPS_WRITE => i.xst # "err")}}

(* state r as the next handler finds it *)
After(r) == [r EXCEPT !.uen = {}, !.sched = {}, !.out = <<>>, !.got = 0]

(* C18: when the backing store fails during Read, Write or Write Check    *)
(* the data error flag is set, unusual end is signalled, the unit is      *)
(* left off the event queue with its command and address as they were     *)
(* (no END state, no further sector), and an SIO to the drive made then   *)
(* with no interrupt pending is admitted and starts the INIT state        *)
C18_StorageError ==
  \A un \in Drives : \A cmd \in {DPS_READ, DPS_WRITE, DPS_CHECK} :
    AtBody(un, cmd) /\ ~cfg.ro[un] =>
      \A r \in IoErrOutcomes(un, cmd) :
        /\ TestBit(r.ctx.dp_flags, DPF_DPE)
        /\ un \in r.uen
        /\ ~r.unit[un].act /\ r.sched = {}
        /\ r.unit[un].UCMD = cmd /\ r.unit[un].UDA = unit[un].UDA
        /\ r.out = <<>>
        /\ (r.chan.chi < 0 /\ r.ctx.dp_ski = 0) =>
             LET n == dp_disp(After(r), 0, "SIO", un, FALSE, FALSE)
             IN  /\ n.rc = "OK" /\ n.dvst.flags \cap {"CC2", "CBUSY", "DBUSY"} = {}
                 /\ n.s.unit[un].act /\ n.s.unit[un].UCMD = DPS_INIT

(* a Write is about to run with a sector already on the pack, and a      *)
(* write that fails can change the file and leave no interrupt pending    *)
C18_Witness ==
  /\ AtBody(0, DPS_WRITE)
  /\ unit[0].file # NoData
  /\ IoErrOutcomes(0, DPS_WRITE) # {}
  /\ \E r \in IoErrOutcomes(0, DPS_WRITE) : r.chan.chi < 0 /\ r.unit[0].file # unit[0].file

(* ======================= seek completion ======================= *)
(* state r is the current state with the seek unit of drive i off the     *)
(* event queue and nothing else changed                                    *)
OnlyFired(r, i) == r = sim_cancel(S, i + DP_SEEK)

(* what one firing of the seek unit of drive i does *)
SeekFires(i) ==
  LET u == i + DP_SEEK
      r == SeekStep(i)
  IN  unit[u].act =>
        IF unit[u].UCMD = DSC_SEEK THEN OnlyFired(r, i)
        ELSE IF chan.chi >= 0
          THEN /\ r.ctx = ctx /\ r.chan = chan
               /\ r.unit[u].act /\ r.unit[u].UCMD = DSC_SEEKW
               /\ \E e \in r.sched : e[1] = u
               /\ \A v \in UnitIdx \ {u} : r.unit[v] = unit[v]
          ELSE /\ SkiSet(r.ctx, i) /\ r.chan.inp
               /\ \A j \in Drives \ {i} : SkiSet(r.ctx, j) = SkiSet(ctx, j)
               /\ ~r.unit[u].act /\ r.sched = {}

(* a controller of the 16-byte family whose drives 0 and 1 seek and       *)
(* recalibrate, with and without interrupt, chained or not; 0 is not a    *)
(* command                                                                 *)
InitSki == InitWith([ctypes |-> {DP_C7275},
                     cmds |-> {0, DPS_SEEK, DPS_SEEKI, DPS_RECALI},
                     targets |-> CtlTargets, disp |-> {<<0, 0>>, <<0, 1>>},
                     ro |-> {[d \in Drives |-> FALSE]},
                     data |-> {"zero"}])

SpecSki == InitSki /\ [][Next]_vars

(* C19: a seek-completion timer that fires in the SEEKING sub-state       *)
(* changes nothing; in another sub-state, with a controller interrupt     *)
(* pending it sets no seek-interrupt bit, is scheduled again and goes to  *)
(* WAITING_TO_INTERRUPT, and with none pending it sets the seek interrupt *)
(* of its drive and asserts device-interrupt-pending; and no step sets a  *)
(* seek-interrupt bit while a controller interrupt is pending             *)
C19_SeekCompletion ==
  /\ [](\A i \in Drives : SeekFires(i))
  /\ [][\A i \in Drives : (~SkiSet(ctx, i) /\ SkiSet(ctx', i)) => chan.chi < 0]_vars

(* a timer that wants to interrupt is scheduled while a controller        *)
(* interrupt is pending, and the timer of another drive is just seeking   *)
C19_Witness ==
  \E i \in Drives : \E j \in Drives \ {i} :
    /\ unit[i + DP_SEEK].act /\ unit[i + DP_SEEK].UCMD = DSC_SEEKI
    /\ chan.chi >= 0
    /\ unit[j + DP_SEEK].act /\ unit[j + DP_SEEK].UCMD = DSC_SEEK

(* ======================= reset ======================= *)
(* a T3281 whose drive 0 and controller pseudo-unit seek with interrupt,  *)
(* load the test pattern and set the interrupt condition                   *)
InitReset == InitWith([ctypes |-> {DP_C3281},
                       cmds |-> {DPS_SEEKI, DPS_TEST, DPS_CRION, DPS_RLSA},
                       targets |-> CtlTargets, disp |-> {<<0, 0>>, <<0, DP_CONT>>},
                       ro |-> {[d \in Drives |-> FALSE]},
                       data |-> {"zero"}])

SpecReset == InitReset /\ [][Next]_vars

(* C20: after a reset the status flags, the seek-interrupt bitmask and the *)
(* test pattern are zero, and every drive, every seek unit and the         *)
(* controller pseudo-unit has disk address and command state zero and is   *)
(* off the event queue                                                      *)
C20_Reset ==
  LET r == dp_reset(S)
  IN  /\ r.ctx.dp_flags = 0 /\ r.ctx.dp_ski = 0 /\ r.ctx.dp_test = 0
      /\ \A u \in UnitIdx :
           r.unit[u].UDA = 0 /\ r.unit[u].UCMD = 0 /\ ~r.unit[u].act

(* flags, a seek interrupt and a test pattern are set, the drive stands   *)
(* off cylinder 0 and a unit is scheduled                                  *)
C20_Witness ==
  /\ ctx.dp_flags # 0 /\ ctx.dp_ski # 0 /\ ctx.dp_test # 0
  /\ unit[0].UDA # 0
  /\ \E u \in UnitIdx : unit[u].act /\ unit[u].UCMD # 0

(* ------------------------------------------------------------------ *)
(* the main units on the event queue *)
Running == {u \in MainUnits : unit[u].act}

(* an SIO to unit un, made now, puts the main unit of un on the event queue *)
SioStarts(un, oob) ==
  /\ ~unit[un].act
  /\ DispAt("SIO", un, oob, FALSE).s.unit[un].act

(* C21: the controller never starts a new operation while it is busy: at   *)
(* most one main unit (the drive units and the controller pseudo-unit) is *)
(* scheduled at any time, and no SIO starts the main unit of a drive whose *)
(* seek unit is scheduled                                                  *)
C21_OneOperation ==
  /\ Cardinality(Running) <= 1
  /\ \A un \in LiveUnits : \A oob \in OobInputs(un) :
       (SioStarts(un, oob) /\ un + DP_SEEK \in UnitIdx) => ~unit[un + DP_SEEK].act

(* the part of C21 about the drives: at most one drive unit is scheduled,  *)
(* and no SIO starts a drive whose seek unit is scheduled                  *)
C21_DrivesOnly ==
  /\ Cardinality(Running \ {DP_CONT}) <= 1
  /\ \A un \in LiveUnits : \A oob \in OobInputs(un) :
       (SioStarts(un, oob) /\ un + DP_SEEK \in UnitIdx) => ~unit[un + DP_SEEK].act

(* a drive and the controller pseudo-unit are on the event queue together *)
C21_Witness == unit[0].act /\ unit[DP_CONT].act

(* ------------------------------------------------------------------ *)
(* the seek unit of drive i fires, wants to interrupt and finds a         *)
(* controller interrupt pending                                            *)
Deferring(i) ==
  /\ unit[i + DP_SEEK].act
  /\ unit[i + DP_SEEK].UCMD # DSC_SEEK
  /\ chan.chi >= 0

(* C22 as amended: a firing seek-completion timer that finds a controller *)
(* interrupt pending reschedules itself after the inter-word time          *)
(* multiplied by the drive's sectors per track                             *)
C22_DeferDelay ==
  \A i \in Drives :
    Deferring(i) => SeekStep(i).sched = {<<i + DP_SEEK, DpTime * Geom.sc>>}

(* C22: a firing seek-completion timer that finds a controller interrupt  *)
(* pending reschedules itself after the inter-track (seek) time multiplied *)
(* by the drive's sectors per track                                        *)
C22_DeferTrackTime ==
  \A i \in Drives :
    Deferring(i) => SeekStep(i).sched = {<<i + DP_SEEK, DpStime * Geom.sc>>}

(* a timer that was deferred once fires again with the controller         *)
(* interrupt still pending                                                 *)
C22_Witness ==
  \E i \in Drives : Deferring(i) /\ unit[i + DP_SEEK].UCMD = DSC_SEEKW

(* ------------------------------------------------------------------ *)
(* main unit un is about to run its INIT state *)
AtInit(un) == unit[un].act /\ unit[un].UCMD = DPS_INIT

(* command code c is not legal for the controller's family, or unit un is *)
(* the controller pseudo-unit and c has no controller tag                  *)
Illegal(un, c) ==
  \/ ctx.dp_ctype \notin dp_cmd(c).ct
  \/ (un = DP_CONT /\ ~dp_cmd(c).C)

(* C23: in INIT a command code that is not legal for the controller's     *)
(* family, or that is addressed to the controller pseudo-unit without the *)
(* controller tag, sets the program-error flag and signals unusual end;   *)
(* it is not stored as the unit's command, the unit is left unscheduled   *)
(* in its INIT state, so no command body runs, and no other unit changes  *)
C23_InitReject ==
  \A un \in MainUnits :
    AtInit(un) =>
      \A in \in SvcInputs(un) :
        (in.gst # "err" /\ Illegal(un, in.cmd)) =>
          LET r == SvcStep(un, in)
          IN  /\ TestBit(r.ctx.dp_flags, DPF_PGE)
              /\ un \in r.uen
              /\ r.unit[un].UCMD = DPS_INIT
              /\ ~r.unit[un].act
              /\ r.sched = {}
              /\ \A v \in UnitIdx \ {un} : r.unit[v] = unit[v]

(* the controller pseudo-unit is about to fetch a drive command and a     *)
(* command of the other family                                             *)
C23_Witness ==
  /\ AtInit(DP_CONT)
  /\ \E in \in SvcInputs(DP_CONT) : in.gst # "err" /\ in.cmd = DPS_SEEKI
  /\ \E in \in SvcInputs(DP_CONT) :
       in.gst # "err" /\ ctx.dp_ctype \notin dp_cmd(in.cmd).ct

(* ------------------------------------------------------------------ *)
(* C24: for a legal data-transfer command whose address has an in-range   *)
(* sector s, INIT schedules the command body after                         *)
(* ((s - p) mod sectorsPerTrack) * perWordTime * 256 time units, where      *)
(* p = floor(now / (perWordTime * 256)) mod sectorsPerTrack; the delay is  *)
(* less than one revolution, and at the time the body runs the sector     *)
(* under the head is s; a fast command is scheduled one channel control    *)
(* time ahead                                                              *)
C24_RotationalDelay ==
  \A un \in Drives :
    AtInit(un) =>
      \A in \in SvcInputs(un) :
        (in.gst # "err" /\ ~Illegal(un, in.cmd)) =>
          LET r == SvcStep(un, in)
              sct == Geom.sc
              w == DpTime * DP_WDSC
              s == DPA_GETSC(unit[un].UDA)
              p == (in.now \div w) % sct
              d == ((s - p) % sct) * w
          IN  IF dp_cmd(in.cmd).F
                THEN r.sched = {<<un, chan_ctl_time>>}
                ELSE s < sct =>
                       /\ r.sched = {<<un, d>>}
                       /\ d < sct * w
                       /\ ((in.now + d) \div w) % sct = s

(* a drive that stands at sector 1 is about to fetch a read, at a time    *)
(* when a later sector is under the head                                   *)
C24_Witness ==
  /\ AtInit(0)
  /\ DPA_GETSC(unit[0].UDA) = 1
  /\ \E in \in SvcInputs(0) :
       /\ in.gst # "err" /\ in.cmd = DPS_READ
       /\ GET_PSC(in.now, DpTime, Geom.sc) > 1

(* ------------------------------------------------------------------ *)
(* the seek units *)
SeekUnits == {d + DP_SEEK : d \in Drives}

(* C25: an INIT of a drive that accepts a command leaves the drive's seek *)
(* unit unscheduled and the seek units of all other drives as they were;  *)
(* an INIT that rejects the command, or gets no command from the channel, *)
(* leaves every seek unit as it was                                        *)
C25_InitCancelsSeek ==
  \A un \in Drives :
    AtInit(un) =>
      \A in \in SvcInputs(un) :
        LET r == SvcStep(un, in)
        IN  IF in.gst # "err" /\ ~Illegal(un, in.cmd)
              THEN /\ ~r.unit[un + DP_SEEK].act
                   /\ \A e \in r.sched : e[1] # un + DP_SEEK
                   /\ \A v \in SeekUnits \ {un + DP_SEEK} : r.unit[v] = unit[v]
              ELSE \A v \in SeekUnits : r.unit[v] = unit[v]

(* a drive fetches its next command while its own seek unit and that of   *)
(* another drive are scheduled, and the channel program holds both a      *)
(* legal and an illegal code                                               *)
C25_Witness ==
  \E un \in Drives : \E v \in Drives \ {un} :
    /\ AtInit(un)
    /\ unit[un + DP_SEEK].act /\ unit[v + DP_SEEK].act
    /\ \E in \in SvcInputs(un) : in.gst # "err" /\ Illegal(un, in.cmd)
    /\ \E in \in SvcInputs(un) : in.gst # "err" /\ ~Illegal(un, in.cmd)

(* ------------------------------------------------------------------ *)
(* main unit un is about to run the body of a command *)
InBody(un) == unit[un].act /\ unit[un].UCMD \notin {DPS_INIT, DPS_END}

(* the body run ended the command without error: no unusual end, and the  *)
(* unit does not go on to a further sector of the same command            *)
Completes(r, un) ==
  /\ r.uen = {}
  /\ ~(r.unit[un].act /\ r.unit[un].UCMD = unit[un].UCMD)

(* the handler left unit un off the event queue *)
Unscheduled(r, un) == ~r.unit[un].act /\ r.sched = {}

(* the handler put unit un, and no other main unit, on the event queue    *)
(* one channel control time ahead, in command state st                     *)
SchedAt(r, un, st) ==
  /\ r.unit[un].act /\ r.unit[un].UCMD = st
  /\ {e \in r.sched : e[1] \in MainUnits} = {<<un, chan_ctl_time>>}

(* C26: a command body that completes without error moves the unit to END *)
(* scheduled one channel control time later; END, when the channel reports *)
(* no error, signals no unusual end and returns the unit to INIT scheduled *)
(* one channel control time later if and only if the channel reports      *)
(* command chaining, leaving it unscheduled otherwise; a channel error in *)
(* INIT or END gives unusual end and leaves the unit unscheduled          *)
C26_EndState ==
  \A un \in MainUnits :
    unit[un].act =>
      \A in \in SvcInputs(un) :
        LET r == SvcStep(un, in)
        IN  /\ (InBody(un) /\ Completes(r, un)) => SchedAt(r, un, DPS_END)
            /\ (unit[un].UCMD = DPS_END /\ in.est # "err") =>
                 /\ r.uen = {}
                 /\ IF chan.cch THEN SchedAt(r, un, DPS_INIT)
                    ELSE Unscheduled(r, un) /\ r.unit[un].UCMD = DPS_END
            /\ (unit[un].UCMD = DPS_END /\ in.est = "err") =>
                 un \in r.uen /\ Unscheduled(r, un)
            /\ (unit[un].UCMD = DPS_INIT /\ in.gst = "err") =>
                 un \in r.uen /\ Unscheduled(r, un)

(* a write whose command chains is about to run its END state *)
C26_Witness ==
  /\ unit[0].act /\ unit[0].UCMD = DPS_END
  /\ chan.cch
  /\ unit[0].file # NoData

(* ------------------------------------------------------------------ *)
(* seek addresses: cylinder MaxCyl, cylinder 256, and cylinder 0 with a    *)
(* bit set in the high six bits of the first byte                          *)
CylTargets == {<<0, MaxCyl, 0, 0>>, <<1, 0, 0, 0>>, <<4, 0, 0, 0>>}

(* a controller of each family; drive 0 seeks and recalibrates, with and  *)
(* without interrupt, and is sensed                                        *)
InitCyl == InitWith([ctypes |-> {DP_C7270, DP_C7275},
                     cmds |-> {DPS_SEEK, DPS_SEEKI, DPS_RECAL, DPS_RECALI, DPS_SENSE},
                     targets |-> CylTargets, disp |-> {<<0, 0>>},
                     ro |-> {[d \in Drives |-> FALSE]},
                     data |-> {"zero"}])

SpecCyl == InitCyl /\ [][Next]_vars

(* the address the four bytes c make *)
AddrOf(c) == c[1] * 16777216 + c[2] * 65536 + c[3] * 256 + c[4]

Abs(x) == IF x < 0 THEN -x ELSE x

(* the error-flag bits and the cylinder-difference field of dp_flags *)
FlagBits(f) == f % 65536

DiffField(f) == (f \div Pow2(DPF_V_DIFF)) % (DPF_M_DIFF + 1)

(* the body run r of drive un did what a seek to address da does: the     *)
(* address is stored, the difference field holds the distance between the *)
(* old and the new cylinder, the error flags are those of state from, and *)
(* the seek unit is scheduled max(1, distance) inter-track times ahead    *)
Seeks(r, un, da, from) ==
  LET d == Abs(DPA_GETCY(unit[un].UDA) - DPA_GETCY(da))
  IN  /\ r.unit[un].UDA = da
      /\ DiffField(r.ctx.dp_flags) = d
      /\ FlagBits(r.ctx.dp_flags) = FlagBits(from)
      /\ r.unit[un + DP_SEEK].act
      /\ {e \in r.sched : e[1] = un + DP_SEEK}
           = {<<un + DP_SEEK, (IF d = 0 THEN 1 ELSE d) * DpStime>>}

(* the error flags after the address bytes c were looked at: the program  *)
(* error flag is set when the high six bits of the first byte are not 0   *)
Looked(c) == IF c[1] \div 4 # 0 THEN OrBit(ctx.dp_flags, DPF_PGE) ELSE ctx.dp_flags

(* four bytes were read and no length error ended the command *)
FullAddress(in) == in.lnt = 4 /\ in.xst # "err"

NoLengthStop(in) == in.xst = "zbc" \/ ~in.care

(* C27: a Seek that receives a full 4-byte address, and is not ended by   *)
(* a length error, stores the new address, stores the distance between    *)
(* the previous and the target cylinder in the difference field without   *)
(* altering the error flags (but for the program error of a first byte    *)
(* with high bits), and schedules the seek unit max(1, distance)          *)
(* inter-track times ahead; Recalibrate does the same with address zero   *)
C27_SeekBody ==
  \A un \in Drives :
    /\ (unit[un].act /\ unit[un].UCMD \in {DPS_SEEK, DPS_SEEKI}) =>
         \A in \in SvcInputs(un) :
           (FullAddress(in) /\ NoLengthStop(in)) =>
             Seeks(SvcStep(un, in), un, AddrOf(in.c), Looked(in.c))
    /\ (unit[un].act /\ unit[un].UCMD \in {DPS_RECAL, DPS_RECALI}) =>
         \A in \in SvcInputs(un) : Seeks(SvcStep(un, in), un, 0, ctx.dp_flags)

(* a Seek is about to run its body while the seek unit of its drive is    *)
(* on the event queue                                                      *)
C27_Witness ==
  /\ unit[0].act /\ unit[0].UCMD \in {DPS_SEEK, DPS_SEEKI}
  /\ unit[DP_SEEK].act

(* ------------------------------------------------------------------ *)
SeekCmds == {DPS_SEEK, DPS_SEEKI, DPS_RECAL, DPS_RECALI}

(* the interrupt-requested bit 0x80 of a command code *)
WantsInt(cmd) == (cmd \div 128) % 2 = 1

(* the sub-state a seek body leaves in the seek unit *)
SubState(cmd, cch) ==
  IF cch THEN DSC_SEEK ELSE IF WantsInt(cmd) THEN DSC_SEEKI ELSE DSC_SEEK

(* every run of a seek or recalibrate body of drive un that goes on to    *)
(* END leaves the seek unit in the sub-state of its command               *)
BodySetsSubState(un) ==
  (unit[un].act /\ unit[un].UCMD \in SeekCmds) =>
    \A in \in SvcInputs(un) :
      LET r == SvcStep(un, in)
      IN  r.unit[un].UCMD = DPS_END =>
            r.unit[un + DP_SEEK].UCMD = SubState(unit[un].UCMD, chan.cch)

(* the step is the body of an unchained seek or recalibrate with          *)
(* interrupt of drive i, going on to END                                   *)
SeekIBody(i) ==
  /\ unit[i].act /\ unit[i].UCMD \in {DPS_SEEKI, DPS_RECALI}
  /\ ~chan.cch
  /\ unit'[i].UCMD = DPS_END

(* where the sub-states that interrupt come from: SEEKING_THEN_INTERRUPT  *)
(* from the body of an unchained seek or recalibrate with interrupt,      *)
(* WAITING_TO_INTERRUPT from SEEKING_THEN_INTERRUPT or from a seek        *)
(* interrupt that was set; and a seek interrupt is set only by a seek     *)
(* unit in one of the two                                                  *)
IntOrigin(i) ==
  LET u == i + DP_SEEK
  IN  /\ (unit'[u].UCMD = DSC_SEEKI /\ unit[u].UCMD # DSC_SEEKI) => SeekIBody(i)
      /\ (unit'[u].UCMD = DSC_SEEKW /\ unit[u].UCMD # DSC_SEEKW) =>
           unit[u].UCMD = DSC_SEEKI \/ TestBit(ctx.dp_ski, Pow2(i))
      /\ (TestBit(ctx'.dp_ski, Pow2(i)) /\ ~TestBit(ctx.dp_ski, Pow2(i))) =>
           unit[u].act /\ unit[u].UCMD \in {DSC_SEEKI, DSC_SEEKW}

(* C28: after a seek or recalibrate body runs the seek unit's sub-state   *)
(* is SEEKING when the channel indicates command chaining, and otherwise  *)
(* SEEKING_THEN_INTERRUPT exactly when the command has bit 0x80; so a     *)
(* seek interrupt is set only after an unchained Seek-and-Interrupt or    *)
(* Recalibrate-and-Interrupt                                               *)
C28_SubState ==
  /\ [](\A un \in Drives : BodySetsSubState(un))
  /\ [][\A i \in Drives : IntOrigin(i)]_vars

(* a chained Recalibrate-and-Interrupt, or a chained Seek-and-Interrupt,  *)
(* is about to run its body                                                *)
C28_Witness ==
  /\ unit[0].act /\ unit[0].UCMD \in {DPS_SEEKI, DPS_RECALI}
  /\ chan.cch
  /\ ctx.dp_ctype = DP_C7275

(* ------------------------------------------------------------------ *)
(* the cylinder difference a full Sense stores: byte 7 and the low bit of *)
(* byte 9 in the 10-byte family, bytes 14 and 15 in the 16-byte family     *)
SensedDiff(out) ==
  IF DP_Q10B(ctx.dp_ctype) THEN out[8] + (out[10] % 2) * 256
  ELSE out[15] * 256 + out[16]

(* the part of the difference field the sense bytes of the family hold *)
Reported(d) == IF DP_Q10B(ctx.dp_ctype) THEN d % 512 ELSE d

(* a full Sense of drive un stores the difference field of dp_flags *)
SenseShowsDiff(un) ==
  (unit[un].act /\ unit[un].UCMD = DPS_SENSE) =>
    \A in \in SvcInputs(un) :
      (in.xst = "zbc" /\ in.lnt = DPS_NBY(ctx)) =>
        SensedDiff(SvcStep(un, in).out) = Reported(DiffField(ctx.dp_flags))

(* no service routine of main unit un but the body of a seek or           *)
(* recalibrate changes the difference field                                *)
SvcKeepsDiff(un) ==
  (unit[un].act /\ unit[un].UCMD \notin SeekCmds) =>
    \A in \in SvcInputs(un) :
      DiffField(SvcStep(un, in).ctx.dp_flags) = DiffField(ctx.dp_flags)

(* no dispatch and no seek completion changes the difference field *)
OthersKeepDiff ==
  /\ \A un \in LiveUnits : \A op \in Ops \ {"BAD"} : \A irq \in BOOLEAN :
       DiffField(DispAt(op, un, FALSE, irq).s.ctx.dp_flags) = DiffField(ctx.dp_flags)
  /\ \A i \in Drives :
       unit[i + DP_SEEK].act =>
         DiffField(SeekStep(i).ctx.dp_flags) = DiffField(ctx.dp_flags)

(* C29: the cylinder difference stored by a Seek is kept for later sense  *)
(* reporting: nothing but a seek or recalibrate body changes the          *)
(* difference field, and a Sense returns the field in the difference      *)
(* bytes of its family, so the next Sense after a Seek with difference d  *)
(* returns d                                                               *)
C29_DiffSensed ==
  /\ \A un \in Drives : SenseShowsDiff(un) /\ SvcKeepsDiff(un)
  /\ OthersKeepDiff

(* the Sense that follows a Seek always finds the difference field zero *)
C29_SenseFindsZero ==
  \A un \in Drives :
    (unit[un].act /\ unit[un].UCMD = DPS_SENSE) => DiffField(ctx.dp_flags) = 0

(* a Seek has stored a difference that is not zero and the drive is about *)
(* to fetch its next command, a Sense                                      *)
C29_Witness ==
  /\ AtInit(0)
  /\ DiffField(ctx.dp_flags) # 0
  /\ \E in \in SvcInputs(0) : in.gst # "err" /\ in.cmd = DPS_SENSE

(* ======================= the guards of Write ======================= *)
(* a sector of the first track and a sector number no drive type has *)
GuardTargets == {<<0, 0, 0, 0>>, <<0, 0, 0, 31>>}

(* a write-enabled and a write-locked drive 0 on a controller of each     *)
(* family; the drive seeks inside and outside its geometry and writes      *)
InitGuard == InitWith([ctypes |-> {DP_C7270, DP_C7275},
                       cmds |-> {DPS_SEEK, DPS_WRITE},
                       targets |-> GuardTargets, disp |-> {<<0, 0>>},
                       ro |-> {[d \in Drives |-> FALSE], [d \in Drives |-> d = 0]},
                       data |-> {"a", "c"}])

SpecGuard == InitGuard /\ [][Next]_vars

(* drive un is about to run the body of a Write *)
AtWrite(un) == unit[un].act /\ unit[un].UCMD = DPS_WRITE

(* the run r of the Write of drive un was refused: unusual end, no word   *)
(* taken from the channel, no file changed, the disk address as before,   *)
(* nothing scheduled                                                       *)
Refused(r, un) ==
  /\ un \in r.uen
  /\ r.got = 0
  /\ \A u \in UnitIdx : r.unit[u].file = unit[u].file
  /\ r.unit[un].UDA = unit[un].UDA
  /\ r.sched = {}
  /\ ~r.unit[un].act

(* C30: a Write on a write-locked unit sets the write protect error, also *)
(* when the address is out of range; a Write on a write-enabled unit with *)
(* an out-of-range address sets the program error; both force unusual     *)
(* end, take no channel data, leave the file and the disk address as they *)
(* are and do not reschedule the unit                                      *)
C30_WriteGuards ==
  \A un \in Drives :
    AtWrite(un) =>
      \A in \in SvcInputs(un) :
        LET r == SvcStep(un, in)
        IN  /\ cfg.ro[un] =>
                 /\ r.ctx.dp_flags = OrBit(ctx.dp_flags, DPF_WPE)
                 /\ Refused(r, un)
            /\ (~cfg.ro[un] /\ dp_inv_ad(S, un)) =>
                 /\ r.ctx.dp_flags = OrBit(ctx.dp_flags, DPF_PGE)
                 /\ Refused(r, un)

(* a write-locked drive with an out-of-range address is about to write *)
C30_Witness == AtWrite(0) /\ cfg.ro[0] /\ dp_inv_ad(S, 0)

(* a write-enabled drive with an out-of-range address is about to write   *)
(* and another sector of its file holds data                               *)
C30_WitnessEnabled ==
  /\ AtWrite(0) /\ ~cfg.ro[0] /\ dp_inv_ad(S, 0)
  /\ \E a \in DOMAIN unit[0].file : unit[0].file[a] # ZeroSec

(* ======================= Write Header ======================= *)
(* drive un is about to run the body of a Write Header on a write-enabled *)
(* unit at an address inside the geometry                                  *)
AtWhdr(un) ==
  /\ unit[un].act /\ unit[un].UCMD = DPS_WHDR
  /\ ~cfg.ro[un] /\ ~dp_inv_ad(S, un)

(* the header bytes were thrown away and the unit went straight to END:   *)
(* no byte read after the header, no file changed, no flag set, no        *)
(* unusual end                                                             *)
HeaderDone(r, un, in) ==
  /\ r.got = in.lnt /\ in.lnt <= 8
  /\ r.out = <<>>
  /\ \A u \in UnitIdx : r.unit[u].file = unit[u].file
  /\ r.ctx.dp_flags = ctx.dp_flags
  /\ r.uen = {}
  /\ SchedAt(r, un, DPS_END)

(* the run r was ended by the sector-non-zero guard *)
SnzEnd(r, un) ==
  /\ r.ctx.dp_flags = OrBit(ctx.dp_flags, DPF_SNZ)
  /\ un \in r.uen /\ r.got = 0 /\ Unscheduled(r, un)
  /\ r.unit[un].UDA = unit[un].UDA

(* C31: a Write Header on a write-enabled unit at sector zero of an       *)
(* in-range address takes at most 8 bytes from the channel and throws     *)
(* them away; when the channel signals completion with no length error    *)
(* the unit goes directly to END, no further channel byte is read, no     *)
(* file is touched and neither the write check nor the program error flag *)
(* is set; at a non-zero sector it sets the sector-non-zero flag and ends *)
(* with unusual end                                                        *)
C31_WriteHeader ==
  \A un \in Drives :
    AtWhdr(un) =>
      \A in \in SvcInputs(un) :
        LET r == SvcStep(un, in)
        IN  /\ (DPA_GETSC(unit[un].UDA) = 0 /\ in.xst = "zbc" /\ in.lnt = 8) =>
                 HeaderDone(r, un, in)
            /\ DPA_GETSC(unit[un].UDA) # 0 => SnzEnd(r, un)

(* the sector-non-zero guard alone *)
C31_SectorNonZero ==
  \A un \in Drives :
    (AtWhdr(un) /\ DPA_GETSC(unit[un].UDA) # 0) =>
      \A in \in SvcInputs(un) : SnzEnd(SvcStep(un, in), un)

(* a Write Header is about to run at sector zero on a drive whose file    *)
(* holds data                                                              *)
C31_Witness ==
  /\ AtWhdr(0) /\ DPA_GETSC(unit[0].UDA) = 0
  /\ \E a \in DOMAIN unit[0].file : unit[0].file[a] # ZeroSec

(* a Write Header is about to run at a non-zero sector *)
C31_WitnessNonZero == AtWhdr(0) /\ DPA_GETSC(unit[0].UDA) # 0

(* ======================= the end of a sector ======================= *)
(* the first sector of the pack and the last sectors of cylinders 0 and   *)
(* MaxCyl of the default drive of the T7270                                *)
EndTargets ==
  LET g == dp_tab[DefaultDtype(DP_C7270)]
  IN  {<<0, 0, 0, 0>>, <<0, 0, g.hd - 1, g.sc - 2>>, <<0, 0, g.hd - 1, g.sc - 1>>,
       <<0, MaxCyl, g.hd - 1, g.sc - 1>>}

(* a T7270 whose drive 0 seeks to the start and to the end of a cylinder  *)
(* and reads and checks the sectors and moves the headers there; the file *)
(* is new and the channel compares with zeros                              *)
InitEnd == InitWith([ctypes |-> {DP_C7270},
                     cmds |-> {DPS_SEEK, DPS_WHDR, DPS_CHECK, DPS_READ, DPS_RHDR},
                     targets |-> EndTargets, disp |-> {<<0, 0>>},
                     ro |-> {[d \in Drives |-> FALSE]},
                     data |-> {"zero"}])

SpecEnd == InitEnd /\ [][Next]_vars

(* a T7270 whose drive 0 seeks to the last sector of cylinder 0 and       *)
(* writes there and, after the wrap, at the start of the cylinder          *)
InitEndWrite == InitWith([ctypes |-> {DP_C7270}, cmds |-> {DPS_SEEK, DPS_WRITE},
                          targets |-> {<<0, 0, dp_tab[DefaultDtype(DP_C7270)].hd - 1,
                                         dp_tab[DefaultDtype(DP_C7270)].sc - 1>>},
                          disp |-> {<<0, 0>>}, ro |-> {[d \in Drives |-> FALSE]},
                          data |-> {"a"}])

SpecEndWrite == InitEndWrite /\ [][Next]_vars

(* the body of the data command of drive un gets to the end of its sector *)
(* with answers in: the address is in range, the unit may be written, a   *)
(* header is written at sector zero, the file gives no error, no byte of  *)
(* a write check differs and the channel gives no error                    *)
ReachesSectorEnd(un, in) ==
  LET cmd == unit[un].UCMD
  IN  /\ unit[un].act /\ cmd \in DataCmds /\ ~dp_inv_ad(S, un)
      /\ in.xst # "err"
      /\ cmd \in {DPS_WRITE, DPS_WHDR} => ~cfg.ro[un]
      /\ cmd = DPS_WHDR => DPA_GETSC(unit[un].UDA) = 0
      /\ cmd \in {DPS_WRITE, DPS_CHECK, DPS_READ} => ~in.ioerr
      /\ cmd = DPS_CHECK =>
           Miscompares(dp_read(S, un, WordAddr(S, un)), in.wds, in.lnt, in.xst) = {}

(* the last sector of the last head of a cylinder *)
LastOfCyl(a, g) == DPA_GETHD(a) = g.hd - 1 /\ DPA_GETSC(a) = g.sc - 1

(* address b is one sector after address a: the next sector of the pack,  *)
(* or head 0, sector 0 of the same cylinder after its last sector          *)
OneSectorOn(a, b, g) ==
  IF LastOfCyl(a, g)
    THEN b = DPA_GETCY(a) * 65536
    ELSE /\ DPA_GETCY(b) = DPA_GETCY(a)
         /\ DPA_GETHD(b) * g.sc + DPA_GETSC(b) = DPA_GETHD(a) * g.sc + DPA_GETSC(a) + 1
         /\ DPA_GETSC(b) < g.sc /\ b < 67108864

(* C32: at the end of a sector with the channel not at zero byte count    *)
(* the disk address advances by exactly one sector; when the advance      *)
(* wrapped to head 0, sector 0 the invalid address and end of cylinder    *)
(* flags are set, unusual end is signalled and the unit is not            *)
(* rescheduled; otherwise the same command body is rescheduled 16 word    *)
(* times later and END is not entered                                      *)
C32_MoreToTransfer ==
  \A un \in Drives : \A in \in SvcInputs(un) :
    (ReachesSectorEnd(un, in) /\ in.xst = "ok") =>
      LET r == SvcStep(un, in)
          g == dp_tab[Dtype(un)]
      IN  /\ OneSectorOn(unit[un].UDA, r.unit[un].UDA, g)
          /\ IF LastOfCyl(unit[un].UDA, g)
               THEN /\ r.ctx.dp_flags = OrBit(OrBit(ctx.dp_flags, DPF_IVA), DPF_EOC)
                    /\ un \in r.uen
                    /\ Unscheduled(r, un)
               ELSE /\ r.ctx.dp_flags = ctx.dp_flags
                    /\ r.uen = {}
                    /\ r.unit[un].act /\ r.unit[un].UCMD = unit[un].UCMD
                    /\ r.sched = {<<un, DpTime * 16>>}

(* a data command is about to move the last sector of a cylinder and      *)
(* another one the sector before it                                        *)
C32_Witness ==
  /\ unit[0].act /\ unit[0].UCMD \in DataCmds
  /\ LastOfCyl(unit[0].UDA, dp_tab[Dtype(0)])
  /\ \E in \in SvcInputs(0) : ReachesSectorEnd(0, in) /\ in.xst = "ok"

(* a data command is about to move the sector before the last one with    *)
(* more data to come                                                       *)
C32_WitnessNext ==
  /\ unit[0].act /\ unit[0].UCMD \in DataCmds
  /\ ~LastOfCyl(unit[0].UDA, dp_tab[Dtype(0)])
  /\ \E in \in SvcInputs(0) : ReachesSectorEnd(0, in) /\ in.xst = "ok"

(* the lnt and exp arguments of the call of dp_end_sec by the body of     *)
(* command cmd: a Write passes the sector size for both                    *)
ExpOf(cmd) ==
  IF cmd \in {DPS_WHDR, DPS_RHDR} THEN 8
  ELSE IF cmd = DPS_CHECK THEN DP_WDSC * 4 ELSE DP_WDSC

LntOf(cmd, in) == IF cmd = DPS_WRITE THEN DP_WDSC ELSE in.lnt

(* the run r of the body of drive un, which reached the end of its sector *)
(* with the channel at zero byte count, did what the sector end does      *)
DoneSectorEnd(r, un, in) ==
  LET cmd == unit[un].UCMD
      lenerr == LntOf(cmd, in) # ExpOf(cmd)
  IN  /\ OneSectorOn(unit[un].UDA, r.unit[un].UDA, dp_tab[Dtype(un)])
      /\ r.ctx.dp_flags = IF lenerr /\ ExpOf(cmd) = 8
                            THEN OrBit(ctx.dp_flags, DPF_PGE) ELSE ctx.dp_flags
      /\ IF lenerr /\ in.care
           THEN un \in r.uen /\ Unscheduled(r, un)
           ELSE r.uen = {} /\ SchedAt(r, un, DPS_END)

(* C33: at the end of a sector with the channel at zero byte count the    *)
(* disk address advances by exactly one sector with no end of cylinder    *)
(* error even when it wraps; when the length moved differs from the       *)
(* length expected the program error flag is set for header operations    *)
(* only and, when the channel cares about length errors, the operation    *)
(* ends with unusual end without entering END; in every other case the    *)
(* unit proceeds to END                                                    *)
C33_TransferDone ==
  \A un \in Drives : \A in \in SvcInputs(un) :
    (ReachesSectorEnd(un, in) /\ in.xst = "zbc") =>
      DoneSectorEnd(SvcStep(un, in), un, in)

(* the same for every command but Write Header *)
C33_ButWriteHeader ==
  \A un \in Drives : \A in \in SvcInputs(un) :
    (ReachesSectorEnd(un, in) /\ in.xst = "zbc" /\ unit[un].UCMD # DPS_WHDR) =>
      DoneSectorEnd(SvcStep(un, in), un, in)

(* a Write Header whose channel may end short of 8 bytes without caring   *)
(* about the length is about to run                                        *)
C33_Witness ==
  /\ AtWhdr(0) /\ DPA_GETSC(unit[0].UDA) = 0
  /\ \E in \in SvcInputs(0) : in.xst = "zbc" /\ in.lnt # 8 /\ ~in.care

(* a read or a write check is about to end at the last sector of a        *)
(* cylinder with the channel at zero byte count, short of a sector         *)
C33_WitnessWrap ==
  /\ unit[0].act /\ unit[0].UCMD \in {DPS_READ, DPS_CHECK, DPS_RHDR}
  /\ LastOfCyl(unit[0].UDA, dp_tab[Dtype(0)])
  /\ \E in \in SvcInputs(0) :
       /\ ReachesSectorEnd(0, in) /\ in.xst = "zbc"
       /\ in.lnt # ExpOf(unit[0].UCMD) /\ in.care

(* ======================= capacity ======================= *)
(* drive 0 of every drive type stands at the start of one of its first    *)
(* cylinders or of its last cylinder                                       *)
InitGeom ==
  /\ \E t \in 0 .. 7 :
       /\ ctx = [dp_ctype |-> dp_tab[t].ctype, dp_flags |-> 0, dp_ski |-> 0, dp_test |-> 0]
       /\ cfg = [dtype |-> t, ndr |-> NDrives, ro |-> [d \in Drives |-> FALSE],
                 cmds |-> {}, targets |-> {}, disp |-> AllDisp,
                 data |-> {"zero"}]
       /\ \E cy \in (0 .. MaxCyl) \cup {dp_tab[t].cy - 1} :
            unit = [u \in UnitIdx |->
                      IF u = 0 THEN [IdleUnit EXCEPT !.UDA = cy * 65536] ELSE IdleUnit]
  /\ chan = [chi |-> -1, inp |-> FALSE, cch |-> FALSE]

(* dp_inc_ad takes drive 0 through the sectors of its cylinder *)
SpecGeom == InitGeom /\ [][IncAd]_vars

(* the capacity of table entry t is the product of its geometry *)
CapacityOf(t) ==
  dp_tab[t].capac = dp_tab[t].cy * dp_tab[t].hd * dp_tab[t].sc * 256

(* the sector at the address of drive un ends inside the capacity of the  *)
(* drive                                                                   *)
InsidePack(un) ==
  ~dp_inv_ad(S, un) => WordAddr(S, un) + 256 <= dp_tab[Dtype(un)].capac

(* C34: for every entry of the geometry table the capacity is cylinders x *)
(* heads x sectors per track x 256 words, and for every address in range  *)
(* the word offset ((cylinder x heads + head) x sectors per track +       *)
(* sector) x 256 plus one sector does not exceed that capacity             *)
C34_Capacity == (\A t \in 0 .. 7 : CapacityOf(t)) /\ InsidePack(0)

(* the same for every entry but that of the 7266 *)
C34_ButT7266 ==
  /\ \A t \in (0 .. 7) \ {DP_7266} : CapacityOf(t)
  /\ cfg.dtype # DP_7266 => InsidePack(0)

(* a 7266 stands at an address in range whose sector ends past the        *)
(* capacity of the table                                                   *)
C34_Witness ==
  /\ cfg.dtype = DP_7266 /\ ~dp_inv_ad(S, 0)
  /\ WordAddr(S, 0) + 256 > dp_tab[DP_7266].capac

(* ======================= the unit array ======================= *)
(* the entries of dpa_unit and dpb_unit: 15 drives, the controller, 15    *)
(* seek units                                                              *)
DP_NUMUN == (2 * DP_NUMDR_16B) + 1

ArrayIdx == 0 .. (DP_NUMUN - 1)

(* the loops over the drives of the controller *)
DriveLoop == 0 .. (DP_NUMDR(ctx) - 1)

(* the indices of dp_unit that dp_tio_status and dp_tdv_status read for   *)
(* unit un                                                                 *)
TioRefs(un) == DriveLoop \cup {un, un + DP_SEEK}

TdvRefs(un) == {un + DP_SEEK}

(* the indices of dp_unit that dp_disp reads or writes for operation op   *)
(* on the accepted unit un                                                 *)
DispRefs(op, un) ==
  CASE op = "SIO" ->
         TioRefs(un) \cup {un} \cup {i + DP_SEEK : i \in {j \in DriveLoop : TestBit(ctx.dp_ski, Pow2(j))}}
    [] op = "TIO" -> TioRefs(un)
    [] op = "TDV" -> TdvRefs(un)
    [] op = "HIO" ->
         TioRefs(un) \cup (IF un # DP_CONT THEN {un, un + DP_SEEK}
                           ELSE DriveLoop \cup {i + DP_SEEK : i \in DriveLoop})
    [] op = "AIO" -> {dp_clr_int(S)[2] + DP_SEEK}
    [] OTHER -> {}

(* the indices of dp_unit that dp_svc reads or writes for main unit un in *)
(* command state cmd                                                       *)
SvcRefs(cmd, un) ==
  IF cmd \in {DPS_INIT, DPS_SENSE} \cup SeekCmds THEN {un, un + DP_SEEK} ELSE {un}

(* every unit the routines touch for the accepted unit un is an entry of  *)
(* the array                                                               *)
RefsInside(un) ==
  /\ \A op \in Ops : DispRefs(op, un) \subseteq ArrayIdx
  /\ (un \in MainUnits /\ unit[un].act) => SvcRefs(unit[un].UCMD, un) \subseteq ArrayIdx

(* C35: every unit reference of the dispatcher, the status routines and   *)
(* the service routines stays inside the 31 entries of the unit array,    *)
(* for every accepted device address, the controller address 0xF with its *)
(* seek unit offset 0xF + 16 included                                      *)
C35_UnitsInBounds ==
  /\ \A un \in LiveUnits : RefsInside(un)
  /\ \A i \in Drives : unit[i + DP_SEEK].act => i + DP_SEEK \in ArrayIdx

(* the same for the controllers that do not accept address 0xF *)
C35_ButT3281 ==
  ctx.dp_ctype # DP_C3281 =>
    /\ \A un \in LiveUnits : RefsInside(un)
    /\ \A i \in Drives : unit[i + DP_SEEK].act => i + DP_SEEK \in ArrayIdx

(* the controller unit of a T3281 is about to fetch a command: INIT ends  *)
(* with sim_cancel of entry 0xF + 16                                       *)
C35_Witness ==
  /\ ctx.dp_ctype = DP_C3281 /\ DP_CONT \in LiveUnits
  /\ AtInit(DP_CONT)

(* ======================= seek interrupt and seek timer ======================= *)
(* C36: in every reachable state the seek interrupt bit of a drive and    *)
(* its scheduled seek completion exclude each other: when bit d of dp_ski *)
(* is set the seek unit of drive d is not scheduled, and only bits of     *)
(* drives below the drive count of the family are set                      *)
C36_SkiExcludesTimer ==
  /\ \A d \in Drives : TestBit(ctx.dp_ski, Pow2(d)) => ~unit[d + DP_SEEK].act
  /\ ctx.dp_ski < Pow2(DP_NUMDR(ctx))
  /\ \A b \in 0 .. (DP_NUMDR(ctx) - 1) : TestBit(ctx.dp_ski, Pow2(b)) => b \in Drives

(* the seek interrupt of one drive is pending while the seek of another   *)
(* drive is under way                                                      *)
C36_Witness ==
  \E d, e \in Drives :
    /\ TestBit(ctx.dp_ski, Pow2(d)) /\ ~unit[d + DP_SEEK].act
    /\ unit[e + DP_SEEK].act /\ ~TestBit(ctx.dp_ski, Pow2(e))

(* the same on the controllers that do not accept address 0xF, where one  *)
(* main unit at a time is active                                           *)
C36_ButT3281 == ctx.dp_ctype # DP_C3281 => C36_SkiExcludesTimer

(* a T3281 whose drive chains into a second seek while its seek interrupt *)
(* is pending: the controller unit and the drive are both active           *)
C36_WitnessBoth ==
  /\ ctx.dp_ctype = DP_C3281
  /\ unit[DP_CONT].act
  /\ unit[0].act /\ unit[0].UCMD \in SeekCmds
  /\ TestBit(ctx.dp_ski, Pow2(0))

(* ======================= INIT and the seek timer ======================= *)
(* the seek unit of drive d is scheduled and will interrupt when it fires *)
WillNotify(d) == unit[d + DP_SEEK].act /\ unit[d + DP_SEEK].UCMD # DSC_SEEK

(* C37: the cancellation of the seek timer by INIT never discards a seek  *)
(* complete notification: whenever INIT runs for a drive, the seek unit   *)
(* of the drive is not scheduled or is in the plain seeking sub-state,    *)
(* never seeking with interrupt or waiting to interrupt                    *)
C37_InitKeepsNotification == \A d \in Drives : AtInit(d) => ~WillNotify(d)

(* the same on the controllers that do not accept address 0xF *)
C37_ButT3281 == ctx.dp_ctype # DP_C3281 => C37_InitKeepsNotification

(* INIT is about to cancel a seek of its drive that is under way in the   *)
(* plain seeking sub-state                                                 *)
C37_WitnessPlain ==
  \E d \in Drives :
    AtInit(d) /\ unit[d + DP_SEEK].act /\ unit[d + DP_SEEK].UCMD = DSC_SEEK

(* on a T3281 the controller unit is active and INIT is about to run for  *)
(* a drive whose seek unit will interrupt                                  *)
C37_Witness ==
  /\ ctx.dp_ctype = DP_C3281 /\ unit[DP_CONT].act
  /\ AtInit(0) /\ WillNotify(0)

(* ======================= termination ======================= *)
(* the sectors from address a to the end of its cylinder, a in range *)
SectorsLeft(a, g) == g.hd * g.sc - (DPA_GETHD(a) * g.sc + DPA_GETSC(a))

(* the run r ended the command of unit un: END is scheduled or unusual    *)
(* end was signalled and the unit is off the event queue                   *)
Ended(r, un) ==
  \/ SchedAt(r, un, DPS_END) /\ r.uen = {}
  \/ r.uen # {} /\ Unscheduled(r, un)

(* the run r rescheduled the body of the command of unit un for a sector  *)
(* in range that is nearer to the end of the cylinder                      *)
NextSector(r, un) ==
  LET g == dp_tab[Dtype(un)]
  IN  /\ r.unit[un].act /\ r.unit[un].UCMD = unit[un].UCMD
      /\ r.uen = {} /\ r.sched = {<<un, DpTime * 16>>}
      /\ ~dp_inv_ad(r, un)
      /\ SectorsLeft(r.unit[un].UDA, g) < SectorsLeft(unit[un].UDA, g)
      /\ SectorsLeft(r.unit[un].UDA, g) >= 1

(* C38: every admitted command terminates: the body of a data transfer    *)
(* command at an address in range, whatever the channel answers, ends the *)
(* command or is rescheduled for a sector nearer to the end of the        *)
(* cylinder, which is at most heads x sectors per track sectors away, so  *)
(* that it runs for at most that many sectors before END or unusual end;  *)
(* the body of a fast command ends the command in one execution            *)
C38_Terminates ==
  \A un \in MainUnits :
    InBody(un) =>
      \A in \in SvcInputs(un) :
        LET r == SvcStep(un, in)
            g == dp_tab[Dtype(un)]
        IN  IF dp_cmd(unit[un].UCMD).F \/ dp_inv_ad(S, un)
              THEN Ended(r, un)
              ELSE /\ SectorsLeft(unit[un].UDA, g) \in 1 .. (g.hd * g.sc)
                   /\ Ended(r, un) \/ NextSector(r, un)

(* a data transfer is about to move a sector that is not the last of its  *)
(* cylinder with a channel that wants more                                 *)
C38_Witness ==
  /\ InBody(0) /\ ~dp_cmd(unit[0].UCMD).F /\ ~dp_inv_ad(S, 0)
  /\ SectorsLeft(unit[0].UDA, dp_tab[Dtype(0)]) = 2
  /\ \E in \in SvcInputs(0) : NextSector(SvcStep(0, in), 0)

(* a fast command is about to run its body *)
C38_WitnessFast == \E un \in MainUnits : InBody(un) /\ dp_cmd(unit[un].UCMD).F

====
